---- MODULE Spec2Model ----
(***************************************************************************)
(* Model of plot-oxide's data pipeline:                                     *)
(*   - the three LTTB implementations (src/app.rs, src/perf/downsample.rs, *)
(*     src/perf/worker.rs),                                                *)
(*   - the AdaptiveDownsampler state machine (src/perf/downsample.rs),     *)
(*   - the zoom-quantized LttbCache (src/perf/cache.rs),                   *)
(*   - the BackgroundWorker thread and its two channels                    *)
(*     (src/perf/worker.rs),                                               *)
(*   - PlotOxide::load_csv with the caches of the application state        *)
(*     (src/app.rs, src/state/ui.rs), DataSource's numeric cache           *)
(*     (src/data/source.rs), FilterConfig (src/state/filters.rs),          *)
(*     passes_filters and the statistics functions (src/app.rs),           *)
(*   - the second LttbCache with its size limit (src/lttb_cache.rs),       *)
(*   - LodManager's tier scan and selection (src/lod.rs),                  *)
(*   - TableState and the data table panel's handlers (src/state/ui.rs,    *)
(*     src/ui/data_table.rs).                                              *)
(*                                                                         *)
(* Points are pairs <<x, y>> of small integers.  Rust slices are 0-based;  *)
(* the model keeps the source's 0-based indices and reads element j of a   *)
(* slice as data[j + 1].                                                   *)
(***************************************************************************)
EXTENDS Integers, Sequences, FiniteSets, TLC

VARIABLES
    build,           \* the build profile of the binary: "debug" or "release"
    lttbCall,        \* the last call of one of the LTTB functions, with its result
    is_interacting,  \* AdaptiveDownsampler.is_interacting
    settle_frames,   \* AdaptiveDownsampler.settle_frames
    adsLast,         \* the last AdaptiveDownsampler operation, with its result
    cache,           \* LttbCache.cache: (series_id, zoom_bucket) -> points
    insertOrder,     \* the cached keys, oldest insertion first (history)
    cacheLast,       \* the last LttbCache operation, with its result
    reqChan,         \* request channel: messages sent on tx, not yet received
    resChan,         \* result channel: results sent by the worker, not yet polled
    wpc,             \* worker thread: "recv", "work", "exited", "panicked", "exhausted"
    wcur,            \* the request the worker thread is processing
    owner,           \* the BackgroundWorker value: "alive", "joining", "dropped"
    submitted,       \* every request passed to request(), in order (history)
    polled,          \* every result poll() has returned, in order (history)
    state_data,      \* PlotOxide.state.data: the loaded table, or NoData
    current_file,    \* state.current_file
    recent_files,    \* state.recent_files, most recent first
    x_index,         \* state.view.x_index
    y_indices,       \* state.view.y_indices
    reset_bounds,    \* state.view.reset_bounds
    x_is_timestamp,  \* state.view.x_is_timestamp
    error_message,   \* state.ui.error_message
    outlier_stats_cache, \* state.outlier_stats_cache: column -> statistics
    data_version,    \* state.ui.data_version
    stats_cache,     \* state.ui.stats_cache: column -> CachedStats
    stats_cache_version, \* state.ui.stats_cache_version
    appLast,         \* the last operation on the application state
    materialized,    \* DataSource.materialized: the rows of the table
    numeric_cache,   \* DataSource.numeric_cache: column -> Vec<f64>
    dsLast,          \* the last DataSource operation, with its result
    filters,         \* a FilterConfig value
    fcLast,          \* the last FilterConfig operation
    pfCall,          \* the last call of passes_filters, with its result
    statCall,        \* the last call of a statistics function, with its result
    zoomCall,        \* the last quantization of two widths
    lttb_cache,      \* lttb_cache::LttbCache.cache: (series_id, zoom_bucket) -> points
    lcLast,          \* the last lttb_cache::LttbCache operation, with its result
    base_path,       \* LodManager.base_path
    current_tier,    \* LodManager.current_tier
    available_tiers, \* LodManager.available_tiers
    lodLast,         \* the last LodManager operation, with its result
    row_filter,      \* state.ui.row_filter
    sort_column,     \* state.ui.sort_column, NoCol for None
    sort_ascending,  \* state.ui.sort_ascending
    table,           \* state.ui.table: the TableState
    tblLast,         \* the last operation on the table state
    dialog_paths     \* the files the file dialog offers

lttbVars == <<lttbCall>>
adsVars == <<is_interacting, settle_frames, adsLast>>
cacheVars == <<cache, insertOrder, cacheLast>>
workerVars == <<reqChan, resChan, wpc, wcur, owner, submitted, polled>>
appVars == <<state_data, current_file, recent_files, x_index, y_indices,
             reset_bounds, x_is_timestamp, error_message, outlier_stats_cache,
             data_version, stats_cache, stats_cache_version, appLast>>
dsVars == <<materialized, numeric_cache, dsLast>>
fcVars == <<filters, fcLast>>
pfVars == <<pfCall>>
statVars == <<statCall>>
zoomVars == <<zoomCall>>
lcVars == <<lttb_cache, lcLast>>
lodVars == <<base_path, current_tier, available_tiers, lodLast>>
tblVars == <<row_filter, sort_column, sort_ascending, table, tblLast>>
fsVars == <<dialog_paths>>
vars == <<build, lttbCall, is_interacting, settle_frames, adsLast,
          cache, insertOrder, cacheLast,
          reqChan, resChan, wpc, wcur, owner, submitted, polled,
          state_data, current_file, recent_files, x_index, y_indices,
          reset_bounds, x_is_timestamp, error_message, outlier_stats_cache,
          data_version, stats_cache, stats_cache_version, appLast,
          materialized, numeric_cache, dsLast, filters, fcLast,
          pfCall, statCall, zoomCall,
          lttb_cache, lcLast,
          base_path, current_tier, available_tiers, lodLast,
          row_filter, sort_column, sort_ascending, table, tblLast,
          dialog_paths>>

\* what the operations of one component leave alone
notLttb == <<build, adsVars, cacheVars, workerVars, appVars, dsVars, fcVars,
             pfVars, statVars, zoomVars,
             lcVars,
             lodVars,
             tblVars,
             fsVars>>
notAds == <<build, lttbVars, cacheVars, workerVars, appVars, dsVars, fcVars,
            pfVars, statVars, zoomVars,
            lcVars,
            lodVars,
            tblVars,
            fsVars>>
notCache == <<build, lttbVars, adsVars, workerVars, appVars, dsVars, fcVars,
              pfVars, statVars, zoomVars,
              lcVars,
              lodVars,
              tblVars,
              fsVars>>
notWorker == <<build, lttbVars, adsVars, cacheVars, appVars, dsVars, fcVars,
               pfVars, statVars, zoomVars,
               lcVars,
               lodVars,
               tblVars,
               fsVars>>
notApp == <<build, lttbVars, adsVars, cacheVars, workerVars, dsVars, fcVars,
            pfVars, statVars, zoomVars,
            lcVars,
            lodVars,
            tblVars,
            fsVars>>
notDs == <<build, lttbVars, adsVars, cacheVars, workerVars, appVars, fcVars,
           pfVars, statVars, zoomVars,
           lcVars,
           lodVars,
           tblVars,
           fsVars>>
notFc == <<build, lttbVars, adsVars, cacheVars, workerVars, appVars, dsVars,
           pfVars, statVars, zoomVars,
           lcVars,
           lodVars,
           tblVars,
           fsVars>>
notPf == <<build, lttbVars, adsVars, cacheVars, workerVars, appVars, dsVars,
           fcVars, statVars, zoomVars,
           lcVars,
           lodVars,
           tblVars,
           fsVars>>
notStat == <<build, lttbVars, adsVars, cacheVars, workerVars, appVars, dsVars,
             fcVars, pfVars, zoomVars,
             lcVars,
             lodVars,
             tblVars,
             fsVars>>
notZoom == <<build, lttbVars, adsVars, cacheVars, workerVars, appVars, dsVars,
             fcVars, pfVars, statVars,
             lcVars,
             lodVars,
             tblVars,
             fsVars>>
notLc == <<build, lttbVars, adsVars, cacheVars, workerVars, appVars, dsVars,
           fcVars, pfVars, statVars, zoomVars,
           lodVars,
           tblVars,
           fsVars>>
notLod == <<build, lttbVars, adsVars, cacheVars, workerVars, appVars, dsVars,
            fcVars, pfVars, statVars, zoomVars, lcVars,
            tblVars,
            fsVars>>
notTbl == <<build, lttbVars, adsVars, cacheVars, workerVars, appVars, dsVars,
            fcVars, pfVars, statVars, zoomVars, lcVars, lodVars,
            fsVars>>

(***************************************************************************)
(* Bounds and input domains                                                *)
(***************************************************************************)
\* longest input slice handed to a downsampler
MaxLen == 6

\* the point values inputs are built from (not collinear, not sorted by x)
PointVals == {<<0, 0>>, <<1, 2>>, <<2, 1>>}

\* every input slice of at most n points
SlicesUpTo(n) == UNION {[1..k -> PointVals] : k \in 0..n}

\* target / threshold arguments, including the degenerate 0, 1, 2
Targets == 0..(MaxLen + 1)

\* overflow checks are on in a debug build and off in a release build
Builds == {"debug", "release"}

Null == [status |-> "none"]

(***************************************************************************)
(* Helpers shared by the LTTB implementations                              *)
(***************************************************************************)
Abs(v) == IF v < 0 THEN 0 - v ELSE v

Min(a, b) == IF a < b THEN a ELSE b

Max(a, b) == IF a > b THEN a ELSE b

\* (k as f64 * bucket_size).floor() as usize, bucket_size = (n-2)/(t-2) with
\* t > 2.  The f64 product and the exact quotient have the same floor for every
\* n <= 16, which covers MaxLen.
FloorMul(k, n, t) == (k * (n - 2)) \div (t - 2)

\* sum of coordinate c (1 = x, 2 = y) of data[from..to), 0-based, Rust's
\* iter().sum() / fold over a sub-slice
RECURSIVE SumRange(_, _, _, _)
SumRange(data, c, from, to) ==
    IF from >= to THEN 0
    ELSE data[from + 1][c] + SumRange(data, c, from + 1, to)

\* the triangle area of point a, point b and the average point (sx/cnt, sy/cnt),
\* multiplied by cnt > 0 so that it stays an integer; the order of two areas
\* of the same bucket is unchanged
AreaTimesCnt(pa, pb, sx, sy, cnt) ==
    Abs((pa[1] * cnt - sx) * (pb[2] - pa[2]) - (pa[1] - pb[1]) * (sy - pa[2] * cnt))

\* for j in from..to { if area > max_area { max_area = area; max_idx = j } },
\* returning the final max_idx
RECURSIVE ScanBucket(_, _, _, _, _, _, _, _, _)
ScanBucket(data, pa, sx, sy, cnt, j, to, max_area, max_idx) ==
    IF j >= to THEN max_idx
    ELSE LET area == AreaTimesCnt(pa, data[j + 1], sx, sy, cnt)
         IN  IF area > max_area
             THEN ScanBucket(data, pa, sx, sy, cnt, j + 1, to, area, j)
             ELSE ScanBucket(data, pa, sx, sy, cnt, j + 1, to, max_area, max_idx)

\* the points of data at the 0-based indices idx
PointsAt(data, idx) == [k \in 1..Len(idx) |-> data[idx[k] + 1]]

Returned(idx, data) == [status |-> "ok", idx |-> idx, points |-> PointsAt(data, idx)]

Unchanged(data) == Returned([k \in 1..Len(data) |-> k - 1], data)

Panicked == [status |-> "panic", idx |-> <<>>, points |-> <<>>]

\* a loop of about 2^64 pushes: the call never returns (it ends the process
\* when memory runs out)
Exhausted == [status |-> "exhausted", idx |-> <<>>, points |-> <<>>]

(***************************************************************************)
(* PlotOxide::downsample_lttb (src/app.rs; src/main.rs holds the same code)*)
(***************************************************************************)
\* the body of `for i in 0..(threshold - 2)`, from iteration i on; a is the
\* previously selected index, sampled the indices pushed so far
RECURSIVE AppLoop(_, _, _, _, _)
AppLoop(data, threshold, i, a, sampled) ==
    LET n == Len(data)
    IN  IF i >= threshold - 2 THEN sampled
        ELSE LET avg_range_start == FloorMul(i + 1, n, threshold) + 1
                 avg_range_end == Min(FloorMul(i + 2, n, threshold) + 1, n)
                 cnt == avg_range_end - avg_range_start
                 sx == SumRange(data, 1, avg_range_start, avg_range_end)
                 sy == SumRange(data, 2, avg_range_start, avg_range_end)
                 range_start == FloorMul(i, n, threshold) + 1
                 range_end == FloorMul(i + 1, n, threshold) + 1
                 \* cnt = 0 makes the average NaN: no area compares greater
                 max_area_point ==
                     IF cnt <= 0 THEN range_start
                     ELSE ScanBucket(data, data[a + 1], sx, sy, cnt,
                                     range_start, range_end, 0, range_start)
             IN  AppLoop(data, threshold, i + 1, max_area_point,
                         Append(sampled, max_area_point))

\* mutant: the final `sampled.push(data[data.len() - 1])` is missing
downsample_lttb_NoLastPush(data, threshold) ==
    IF Len(data) <= threshold \/ threshold < 3 THEN Unchanged(data)
    ELSE Returned(AppLoop(data, threshold, 0, 0, <<0>>), data)

downsample_lttb(data, threshold) ==
    IF Len(data) <= threshold \/ threshold < 3 THEN Unchanged(data)
    ELSE Returned(Append(AppLoop(data, threshold, 0, 0, <<0>>), Len(data) - 1), data)

(***************************************************************************)
(* lttb_downsample (src/perf/downsample.rs)                                *)
(***************************************************************************)
\* the body of `for i in 0..(target - 2)` with target >= 3, from iteration i on
RECURSIVE PerfLoop(_, _, _, _, _)
PerfLoop(data, target, i, a, result) ==
    LET n == Len(data)
    IN  IF i >= target - 2 THEN result
        ELSE LET bucket_start == FloorMul(i + 1, n, target) + 1
                 bucket_end == Min(FloorMul(i + 2, n, target) + 1, n - 1)
                 next_start == bucket_end
                 next_end == Min(FloorMul(i + 3, n, target) + 1, n)
                 cnt == IF next_start < next_end THEN next_end - next_start ELSE 1
                 sx == IF next_start < next_end
                       THEN SumRange(data, 1, next_start, next_end)
                       ELSE data[n][1]
                 sy == IF next_start < next_end
                       THEN SumRange(data, 2, next_start, next_end)
                       ELSE data[n][2]
                 \* max_area = -1.0 is below every area
                 max_idx == ScanBucket(data, data[a + 1], sx, sy, cnt,
                                       bucket_start, bucket_end, 0 - cnt, bucket_start)
             IN  PerfLoop(data, target, i + 1, max_idx, Append(result, max_idx))

\* target < 3 reaches `target - 2` on a usize:
\*   target = 2: bucket_size is n-2 over 0.0, the loop 0..0 is empty and the
\*     result is the first and the last point;
\*   target < 2: the subtraction overflows.  A debug build panics.  A release
\*     build wraps to about 2^64 iterations, each pushing data[1] (or indexing
\*     out of bounds at once when the slice has a single point).
LttbPerfBody(data, target, profile) ==
    LET n == Len(data)
    IN  IF n <= target THEN Unchanged(data)
        ELSE IF target >= 3
        THEN Returned(Append(PerfLoop(data, target, 0, 0, <<0>>), n - 1), data)
        ELSE IF target = 2 THEN Returned(<<0, n - 1>>, data)
        ELSE IF profile = "debug" THEN Panicked
        ELSE IF n = 1 THEN Panicked
        ELSE Exhausted

lttb_downsample(data, target, profile) == LttbPerfBody(data, target, profile)

(***************************************************************************)
(* BackgroundWorker::compute_lttb (src/perf/worker.rs): the same statements *)
(* as lttb_downsample                                                      *)
(***************************************************************************)
compute_lttb(data, target, profile) == LttbPerfBody(data, target, profile)

\* data.iter().step_by(step): the 0-based indices 0, step, 2*step, ... below n
RECURSIVE StepBy(_, _, _)
StepBy(from, step, n) ==
    IF from >= n THEN <<>> ELSE <<from>> \o StepBy(from + step, step, n)

\* mutant: the sample walks the slice from its end
nth_point_sample_Backwards(data, target) ==
    IF target = 0 THEN Panicked
    ELSE LET idx == StepBy(0, Max(Len(data) \div target, 1), Len(data))
         IN  Returned([k \in 1..Len(idx) |-> idx[Len(idx) + 1 - k]], data)

\* AdaptiveDownsampler::nth_point_sample: data.len() / target panics on target = 0 (division by zero)
nth_point_sample(data, target) ==
    IF target = 0 THEN Panicked
    ELSE Returned(StepBy(0, Max(Len(data) \div target, 1), Len(data)), data)

(***************************************************************************)
(* One call of each pure LTTB function on every bounded input              *)
(***************************************************************************)
BuildInit == build \in Builds

\* no LTTB call is being made
LttbIdle == lttbCall = [fn |-> "idle", data |-> <<>>, target |-> 0, result |-> Null]

\* the arguments of one call, drawn from the bounded inputs
LttbInit ==
    \E data \in SlicesUpTo(MaxLen), target \in Targets :
        lttbCall = [fn |-> "args", data |-> data, target |-> target, result |-> Null]

CallDownsampleLttb ==
    /\ lttbCall.fn = "args"
    /\ lttbCall' = [lttbCall EXCEPT !.fn = "downsample_lttb",
                       !.result = downsample_lttb(lttbCall.data, lttbCall.target)]
    /\ UNCHANGED notLttb

CallLttbDownsample ==
    /\ lttbCall.fn = "args"
    /\ lttbCall' = [lttbCall EXCEPT !.fn = "lttb_downsample",
                       !.result = lttb_downsample(lttbCall.data, lttbCall.target, build)]
    /\ UNCHANGED notLttb

CallComputeLttb ==
    /\ lttbCall.fn = "args"
    /\ lttbCall' = [lttbCall EXCEPT !.fn = "compute_lttb",
                       !.result = compute_lttb(lttbCall.data, lttbCall.target, build)]
    /\ UNCHANGED notLttb

CallNthPointSample ==
    /\ lttbCall.fn = "args"
    /\ lttbCall' = [lttbCall EXCEPT !.fn = "nth_point_sample",
                       !.result = nth_point_sample(lttbCall.data, lttbCall.target)]
    /\ UNCHANGED notLttb

LttbNext ==
    \/ CallDownsampleLttb
    \/ CallLttbDownsample
    \/ CallComputeLttb
    \/ CallNthPointSample

(***************************************************************************)
(* AdaptiveDownsampler (src/perf/downsample.rs)                            *)
(***************************************************************************)
\* the value settle_frames is reset to while dragging
SettleFrames == 10

\* one input slice of every length up to MaxLen, sorted by x
Ramp(k) == [i \in 1..k |-> <<i - 1, (i * i) % 3>>]

AdsSlices == {Ramp(k) : k \in 0..MaxLen}

is_fast_mode == is_interacting \/ settle_frames > 0

\* adsLast.calm counts the downsample calls with currently_dragging = false
\* made since the last dragging call, up to CalmCap; it is NoDrag when no
\* dragging call was made since new or force_settle
NoDrag == 0 - 1

CalmCap == SettleFrames + 2

CalmAfter(dragging) ==
    IF dragging THEN 0
    ELSE IF adsLast.calm = NoDrag THEN NoDrag
    ELSE Min(adsLast.calm + 1, CalmCap)

AdsInit ==
    /\ is_interacting = FALSE
    /\ settle_frames = 0
    /\ adsLast = [op |-> "new", prev |-> "none", data |-> <<>>, target |-> 0,
                  dragging |-> FALSE, method |-> "none", result |-> Null,
                  calm |-> NoDrag]

\* what the call did: the method it used and what it returned
AdsCall(prev, data, target, dragging, method, result) ==
    [op |-> "downsample", prev |-> prev, data |-> data, target |-> target,
     dragging |-> dragging, method |-> method, result |-> result,
     calm |-> CalmAfter(dragging)]

\* mutant: the countdown branch clears is_interacting while it counts
downsample_CountdownClearsFlag(data, target, currently_dragging) ==
    IF Len(data) <= target
    THEN /\ adsLast' = AdsCall(adsLast.op, data, target, currently_dragging,
                               "copy", Unchanged(data))
         /\ UNCHANGED <<is_interacting, settle_frames>>
    ELSE IF currently_dragging
    THEN /\ is_interacting' = TRUE
         /\ settle_frames' = SettleFrames
         /\ adsLast' = AdsCall(adsLast.op, data, target, currently_dragging,
                               "nth", nth_point_sample(data, target))
    ELSE IF settle_frames > 0
    THEN /\ settle_frames' = settle_frames - 1
         /\ is_interacting' = FALSE
         /\ adsLast' = AdsCall(adsLast.op, data, target, currently_dragging,
                               "nth", nth_point_sample(data, target))
    ELSE /\ is_interacting' = FALSE
         /\ UNCHANGED settle_frames
         /\ adsLast' = AdsCall(adsLast.op, data, target, currently_dragging,
                               "lttb", lttb_downsample(data, target, build))

downsample(data, target, currently_dragging) ==
    IF Len(data) <= target
    THEN /\ adsLast' = AdsCall(adsLast.op, data, target, currently_dragging,
                               "copy", Unchanged(data))
         /\ UNCHANGED <<is_interacting, settle_frames>>
    ELSE IF currently_dragging
    THEN /\ is_interacting' = TRUE
         /\ settle_frames' = SettleFrames
         /\ adsLast' = AdsCall(adsLast.op, data, target, currently_dragging,
                               "nth", nth_point_sample(data, target))
    ELSE IF settle_frames > 0
    THEN /\ settle_frames' = settle_frames - 1
         /\ UNCHANGED is_interacting
         /\ adsLast' = AdsCall(adsLast.op, data, target, currently_dragging,
                               "nth", nth_point_sample(data, target))
    ELSE /\ is_interacting' = FALSE
         /\ UNCHANGED settle_frames
         /\ adsLast' = AdsCall(adsLast.op, data, target, currently_dragging,
                               "lttb", lttb_downsample(data, target, build))

Downsample ==
    /\ \E data \in AdsSlices, target \in Targets, currently_dragging \in BOOLEAN :
           downsample(data, target, currently_dragging)
    /\ UNCHANGED notAds

\* mutant: force_settle clears the flag and forgets the countdown
force_settle_KeepsCountdown ==
    /\ UNCHANGED settle_frames
    /\ is_interacting' = FALSE
    /\ adsLast' = [op |-> "force_settle", prev |-> adsLast.op, data |-> <<>>,
                   target |-> 0, dragging |-> FALSE, method |-> "none",
                   result |-> Null, calm |-> NoDrag]
    /\ UNCHANGED notAds

force_settle ==
    /\ settle_frames' = 0
    /\ is_interacting' = FALSE
    /\ adsLast' = [op |-> "force_settle", prev |-> adsLast.op, data |-> <<>>,
                   target |-> 0, dragging |-> FALSE, method |-> "none",
                   result |-> Null, calm |-> NoDrag]
    /\ UNCHANGED notAds

AdsNext ==
    \/ Downsample
    \/ force_settle

(***************************************************************************)
(* perf::LttbCache (src/perf/cache.rs)                                     *)
(***************************************************************************)
\* LttbCache::new sets max_entries to 100.  The victims of an eviction are any
\* half of the keys, so the model keeps the cap small enough to enumerate
\* them; the code reads the cap only through self.max_entries.
max_entries == 2

SeriesIds == {0, 1}

\* visible ranges (x_min, x_max): widths 1, 2, 2 and 3
VisibleRanges == {<<0, 1>>, <<0, 2>>, <<1, 3>>, <<0, 3>>}

\* what a compute closure may return
ComputedPoints == {<< <<0, 0>> >>, << <<0, 0>>, <<1, 2>> >>}

\* floor(log2(n)) for an integer n >= 1
RECURSIVE Log2Floor(_)
Log2Floor(n) == IF n < 2 THEN 0 ELSE 1 + Log2Floor(n \div 2)

\* mutant: three buckets per doubling of the width
zoom_bucket_ThirdOctave(visible_range) ==
    IF visible_range <= 0 THEN 0
    ELSE Log2Floor(visible_range * visible_range * visible_range)

\* (visible_range.log2() * 2.0).floor() as i32: for a width w > 0 this is
\* floor(log2(w^2)), exact for integer widths
zoom_bucket(visible_range) ==
    IF visible_range <= 0 THEN 0
    ELSE Log2Floor(visible_range * visible_range)

CacheKeyOf(series_id, visible_range) ==
    <<series_id, zoom_bucket(visible_range[2] - visible_range[1])>>

\* mutant: the limit test is `>` where the code has `>=`
enforce_limit_StrictlyOver(c) ==
    IF Cardinality(DOMAIN c) > max_entries
    THEN {v \in SUBSET (DOMAIN c) : Cardinality(v) = Cardinality(DOMAIN c) \div 2}
    ELSE {{}}

\* the key sets enforce_limit may remove: HashMap::keys() yields the keys in
\* an arbitrary order, so take(len / 2) is any len / 2 of them
enforce_limit(c) ==
    IF Cardinality(DOMAIN c) >= max_entries
    THEN {v \in SUBSET (DOMAIN c) : Cardinality(v) = Cardinality(DOMAIN c) \div 2}
    ELSE {{}}

\* the elements of sequence q that are not in set gone, in order
RECURSIVE Without(_, _)
Without(q, gone) ==
    IF q = <<>> THEN <<>>
    ELSE IF Head(q) \in gone THEN Without(Tail(q), gone)
    ELSE <<Head(q)>> \o Without(Tail(q), gone)

\* cacheLast describes the last operation: its name, its key and range, what
\* it returned, whether it invoked the compute closure, whether it evicted, and
\* (after) the visible range of the operation before it when that one was a
\* get_or_compute for the same key
NoCacheOp == [op |-> "new", key |-> <<>>, range |-> <<>>, invoked |-> FALSE,
              returned |-> <<>>, evicted |-> FALSE, after |-> <<>>]

CacheInit ==
    /\ cache = <<>>
    /\ insertOrder = <<>>
    /\ cacheLast = NoCacheOp

RangeBefore(key) ==
    IF cacheLast.op = "get_or_compute" /\ cacheLast.key = key
    THEN cacheLast.range ELSE <<>>

\* mutant: the contains_key test is missing, every call computes and inserts
get_or_compute_AlwaysComputes(series_id, visible_range, points) ==
    LET key == CacheKeyOf(series_id, visible_range)
    IN  \E victims \in enforce_limit(cache) :
           LET kept == (DOMAIN cache) \ victims
           IN  /\ cache' = [k \in kept \cup {key} |->
                               IF k = key THEN points ELSE cache[k]]
               /\ insertOrder' = Append(Without(insertOrder, victims \cup {key}), key)
               /\ cacheLast' = [op |-> "get_or_compute", key |-> key,
                                range |-> visible_range, invoked |-> TRUE,
                                returned |-> points, evicted |-> victims # {},
                                after |-> RangeBefore(key)]

\* points is what compute_fn returns if it is invoked
get_or_compute(series_id, visible_range, points) ==
    LET key == CacheKeyOf(series_id, visible_range)
    IN  IF key \in DOMAIN cache
        THEN /\ UNCHANGED <<cache, insertOrder>>
             /\ cacheLast' = [op |-> "get_or_compute", key |-> key,
                              range |-> visible_range, invoked |-> FALSE,
                              returned |-> cache[key], evicted |-> FALSE,
                              after |-> RangeBefore(key)]
        ELSE \E victims \in enforce_limit(cache) :
               LET kept == (DOMAIN cache) \ victims
               IN  /\ cache' = [k \in kept \cup {key} |->
                                   IF k = key THEN points ELSE cache[k]]
                   /\ insertOrder' = Append(Without(insertOrder, victims), key)
                   /\ cacheLast' = [op |-> "get_or_compute", key |-> key,
                                    range |-> visible_range, invoked |-> TRUE,
                                    returned |-> points, evicted |-> victims # {},
                                    after |-> RangeBefore(key)]

GetOrCompute ==
    /\ \E series_id \in SeriesIds, visible_range \in VisibleRanges,
          points \in ComputedPoints :
           get_or_compute(series_id, visible_range, points)
    /\ UNCHANGED notCache

invalidate ==
    /\ cache' = <<>>
    /\ insertOrder' = <<>>
    /\ cacheLast' = [NoCacheOp EXCEPT !.op = "invalidate"]
    /\ UNCHANGED notCache

invalidate_series(series_id) ==
    LET gone == {k \in DOMAIN cache : k[1] = series_id}
    IN  /\ cache' = [k \in (DOMAIN cache) \ gone |-> cache[k]]
        /\ insertOrder' = Without(insertOrder, gone)
        /\ cacheLast' = [NoCacheOp EXCEPT !.op = "invalidate_series",
                            !.key = <<series_id>>]

InvalidateSeries ==
    /\ \E series_id \in SeriesIds : invalidate_series(series_id)
    /\ UNCHANGED notCache

CacheNext ==
    \/ GetOrCompute
    \/ invalidate
    \/ InvalidateSeries

(***************************************************************************)
(* BackgroundWorker (src/perf/worker.rs)                                   *)
(***************************************************************************)
\* calls of request() in one run
MaxRequests == 3

Paths == {"data.csv", "data.parquet", "notes.txt"}

\* path.extension(), lowercased
Extension(path) ==
    CASE path = "data.csv" -> "csv"
      [] path = "data.parquet" -> "parquet"
      [] OTHER -> "txt"

\* the ComputeLttb jobs: a reduction of 4 points to 3, a degenerate target of
\* 2, a degenerate target of 1, and a slice no longer than its target
LttbJobs ==
    {[series_id |-> 0, data |-> Ramp(4), target_points |-> 3],
     [series_id |-> 1, data |-> Ramp(3), target_points |-> 2],
     [series_id |-> 1, data |-> Ramp(2), target_points |-> 1],
     [series_id |-> 0, data |-> Ramp(2), target_points |-> 4]}

WorkerRequests ==
    {[type |-> "LoadFile", path |-> p] : p \in Paths}
    \cup {[type |-> "ComputeLttb", series_id |-> j.series_id, data |-> j.data,
           target_points |-> j.target_points] : j \in LttbJobs}

Shutdown == [type |-> "Shutdown"]

NoRequest == [type |-> "none"]

\* the results load_file may return: the readers fail or succeed with the
\* file system's content, which the model leaves open
load_file(path) ==
    IF Extension(path) \in {"parquet", "csv"}
    THEN {[type |-> "FileLoaded", path |-> path], [type |-> "Error"]}
    ELSE {[type |-> "Error"]}

\* the thread behind the worker's end of both channels has ended
ThreadEnded == wpc \in {"exited", "panicked"}

WorkerInit ==
    /\ reqChan = <<>>
    /\ resChan = <<>>
    /\ wpc = "recv"
    /\ wcur = NoRequest
    /\ owner = "alive"
    /\ submitted = <<>>
    /\ polled = <<>>

\* mutant: drop does not get its Shutdown message into the channel
Send_LosesShutdown(msg) ==
    IF ThreadEnded \/ msg.type = "Shutdown" THEN reqChan ELSE Append(reqChan, msg)

\* tx.send(req): the message is queued unless the receiving thread has ended
\* (the error is ignored)
Send(msg) == IF ThreadEnded THEN reqChan ELSE Append(reqChan, msg)

\* request(): id numbers the calls (history)
request(req) ==
    /\ owner = "alive"
    /\ Len(submitted) < MaxRequests
    /\ submitted' = Append(submitted, [req |-> req, queued |-> ~ThreadEnded])
    /\ reqChan' = Send(req @@ [id |-> Len(submitted) + 1])
    /\ UNCHANGED <<resChan, wpc, wcur, owner, polled>>

Request ==
    /\ \E req \in WorkerRequests : request(req)
    /\ UNCHANGED notWorker

\* mutant: the channel hands out its newest message
RecvNewest(chan) == [msg |-> chan[Len(chan)], rest |-> SubSeq(chan, 1, Len(chan) - 1)]

\* rx.recv() / rx.try_recv(): the oldest message of a channel
Recv(chan) == [msg |-> Head(chan), rest |-> Tail(chan)]

\* worker_loop: `while let Ok(request) = rx.recv()` returns a message;
\* Shutdown breaks out of the loop and the thread ends
WorkerRecv ==
    /\ wpc = "recv"
    /\ reqChan # <<>>
    /\ LET got == Recv(reqChan)
       IN  IF got.msg.type = "Shutdown"
           THEN /\ wpc' = "exited"
                /\ reqChan' = <<>>
                /\ UNCHANGED wcur
           ELSE /\ wpc' = "work"
                /\ reqChan' = got.rest
                /\ wcur' = got.msg
    /\ UNCHANGED <<resChan, owner, submitted, polled>>
    /\ UNCHANGED notWorker

\* worker_loop: the match arms and tx.send(result).  A panic in compute_lttb
\* unwinds the thread (its ends of both channels are dropped); a compute_lttb
\* that never returns keeps the thread busy for ever.  The result receiver
\* lives until drop() has joined the thread, so the send succeeds.
WorkerProcess ==
    /\ wpc = "work"
    /\ IF wcur.type = "LoadFile"
       THEN /\ \E result \in load_file(wcur.path) :
                 resChan' = Append(resChan, result @@ [id |-> wcur.id,
                                                       req |-> "LoadFile"])
            /\ wpc' = "recv"
            /\ wcur' = NoRequest
            /\ UNCHANGED reqChan
       ELSE LET r == compute_lttb(wcur.data, wcur.target_points, build)
            IN  IF r.status = "ok"
                THEN /\ resChan' = Append(resChan,
                            [type |-> "LttbReady", series_id |-> wcur.series_id,
                             points |-> r.points, id |-> wcur.id,
                             req |-> "ComputeLttb"])
                     /\ wpc' = "recv"
                     /\ wcur' = NoRequest
                     /\ UNCHANGED reqChan
                ELSE IF r.status = "panic"
                THEN /\ wpc' = "panicked"
                     /\ reqChan' = <<>>
                     /\ UNCHANGED <<resChan, wcur>>
                ELSE /\ wpc' = "exhausted"
                     /\ UNCHANGED <<reqChan, resChan, wcur>>
    /\ UNCHANGED <<owner, submitted, polled>>
    /\ UNCHANGED notWorker

\* poll(): try_recv returns the oldest result, or None when there is none
Poll ==
    /\ owner = "alive"
    /\ IF resChan = <<>>
       THEN UNCHANGED <<resChan, polled>>
       ELSE LET got == Recv(resChan)
            IN  /\ polled' = Append(polled, got.msg)
                /\ resChan' = got.rest
    /\ UNCHANGED <<reqChan, wpc, wcur, owner, submitted>>
    /\ UNCHANGED notWorker

\* Drop::drop, first half: send Shutdown, then block in handle.join()
Drop ==
    /\ owner = "alive"
    /\ reqChan' = Send(Shutdown)
    /\ owner' = "joining"
    /\ UNCHANGED <<resChan, wpc, wcur, submitted, polled>>
    /\ UNCHANGED notWorker

\* Drop::drop, second half: join returns once the thread has ended; the
\* fields, and with them the results nobody polled, are dropped
JoinReturns ==
    /\ owner = "joining"
    /\ ThreadEnded
    /\ owner' = "dropped"
    /\ resChan' = <<>>
    /\ UNCHANGED <<reqChan, wpc, wcur, submitted, polled>>
    /\ UNCHANGED notWorker

WorkerNext ==
    \/ Request
    \/ WorkerRecv
    \/ WorkerProcess
    \/ Poll
    \/ Drop
    \/ JoinReturns

(***************************************************************************)
(* f64 values and Option<f64>                                              *)
(***************************************************************************)
\* a finite f64 holding the integer n
Fin(n) == [k |-> "fin", v |-> n]

NaN == [k |-> "nan", v |-> 0]

PosInf == [k |-> "inf", v |-> 1]

NegInf == [k |-> "inf", v |-> 0 - 1]

\* Option::None
None == [k |-> "none", v |-> 0]

\* a < b on f64: false when either side is NaN
FLt(a, b) ==
    IF a.k = "nan" \/ b.k = "nan" THEN FALSE
    ELSE IF a.k = b.k THEN a.v < b.v
    ELSE IF a.k = "inf" THEN a.v < 0
    ELSE b.v > 0

\* a > b on f64
FGt(a, b) == FLt(b, a)

\* a == b on f64: NaN equals nothing
FEq(a, b) == a.k # "nan" /\ b.k # "nan" /\ a = b

\* a <= b and a >= b on f64
FLe(a, b) == FLt(a, b) \/ FEq(a, b)

FGe(a, b) == FLe(b, a)

\* a - b on f64: inf - inf is NaN
FSub(a, b) ==
    IF a.k = "nan" \/ b.k = "nan" THEN NaN
    ELSE IF a.k = "fin" /\ b.k = "fin" THEN Fin(a.v - b.v)
    ELSE IF a.k = "inf" /\ b.k = "inf"
    THEN IF a.v = b.v THEN NaN ELSE a
    ELSE IF a.k = "inf" THEN a
    ELSE [k |-> "inf", v |-> 0 - b.v]

\* a + b on f64
FAdd(a, b) == FSub(a, IF b.k = "nan" THEN b ELSE [k |-> b.k, v |-> 0 - b.v])

\* a / 2.0 and 1.5 * a; the finite values these are applied to are even
FHalf(a) == IF a.k = "fin" THEN Fin(a.v \div 2) ELSE a

FTimes3Half(a) == IF a.k = "fin" THEN Fin(3 * (a.v \div 2)) ELSE a

\* f64::min and f64::max: a NaN operand is ignored
f64_min(a, b) ==
    IF a.k = "nan" THEN b ELSE IF b.k = "nan" THEN a
    ELSE IF FLt(b, a) THEN b ELSE a

f64_max(a, b) ==
    IF a.k = "nan" THEN b ELSE IF b.k = "nan" THEN a
    ELSE IF FGt(b, a) THEN b ELSE a

(***************************************************************************)
(* PlotOxide::load_csv, the series selection, the outlier statistics cache *)
(* and the per-column statistics cache of UiState                          *)
(* (src/app.rs, src/data/source.rs, src/state/ui.rs, src/ui)               *)
(***************************************************************************)
\* the paths the user may pick in the file dialog
AppPaths == {"a.csv", "b.parquet", "c.CSV", "notes.txt", "README"}

\* a directory of six loadable files, one more than recent_files keeps
SixFiles == {"a.csv", "b.parquet", "c.CSV", "d.csv", "e.csv", "f.parquet"}

\* a directory of two loadable files
TwoFiles == {"a.csv", "b.parquet"}

FsInit == dialog_paths = AppPaths

\* path.extension().and_then(|s| s.to_str()): "none" stands for None
PathExtension(path) ==
    CASE path = "a.csv" -> "csv"
      [] path = "b.parquet" -> "parquet"
      [] path = "c.CSV" -> "CSV"
      [] path \in {"d.csv", "e.csv"} -> "csv"
      [] path = "f.parquet" -> "parquet"
      [] path = "notes.txt" -> "txt"
      [] OTHER -> "none"

\* extension.to_lowercase()
to_lowercase(ext) == IF ext = "CSV" THEN "csv" ELSE ext

\* what a readable file may hold: the number of columns, whether a column
\* has more than 5% unparseable cells, whether column 0 is a date(time) column
TableShapes ==
    {[width |-> 1, nan |-> FALSE, ts |-> FALSE],
     [width |-> 2, nan |-> TRUE, ts |-> FALSE],
     [width |-> 2, nan |-> FALSE, ts |-> TRUE]}

\* state.data = None
NoData == [file_path |-> "none", width |-> 0, nan |-> FALSE, ts |-> FALSE]

\* DataSource::load: the results it may return for a path.  The readers
\* (scan_parquet, LazyCsvReader::finish, collect) fail or succeed with what
\* the file system holds, which the model leaves open.
load(path) ==
    IF PathExtension(path) = "none"
    THEN {[ok |-> FALSE, err |-> "UnsupportedFormat", source |-> NoData]}
    ELSE IF to_lowercase(PathExtension(path)) \in {"parquet", "csv"}
    THEN {[ok |-> FALSE, err |-> "PolarsError", source |-> NoData]}
         \cup {[ok |-> TRUE, err |-> "none",
                source |-> [file_path |-> path, width |-> t.width,
                            nan |-> t.nan, ts |-> t.ts]] : t \in TableShapes}
    ELSE {[ok |-> FALSE, err |-> "UnsupportedFormat", source |-> NoData]}

\* recent_files.truncate(5)
RecentFilesCap == 5

\* Vec::contains
Contains(q, x) == \E i \in 1..Len(q) : q[i] = x

\* Vec::retain(|p| p != x)
RECURSIVE Retain(_, _)
Retain(q, x) ==
    IF q = <<>> THEN <<>>
    ELSE IF Head(q) = x THEN Retain(Tail(q), x)
    ELSE <<Head(q)>> \o Retain(Tail(q), x)

\* mutant: truncate keeps one element more
Truncate_KeepsOneMore(q, n) == IF Len(q) > n + 1 THEN SubSeq(q, 1, n + 1) ELSE q

\* Vec::truncate(n)
Truncate(q, n) == IF Len(q) > n THEN SubSeq(q, 1, n) ELSE q

\* the elements of a Vec
Elems(q) == {q[i] : i \in 1..Len(q)}

\* the statistics computed for a column of the table loaded from file_path
StatsOf(source) == [of |-> source.file_path]

AppInit ==
    /\ state_data = NoData
    /\ current_file = "none"
    /\ recent_files = <<>>
    /\ x_index = 0
    /\ y_indices = <<>>
    /\ reset_bounds = FALSE
    /\ x_is_timestamp = FALSE
    /\ error_message = "none"
    /\ outlier_stats_cache = <<>>
    /\ data_version = 0
    /\ stats_cache = <<>>
    /\ stats_cache_version = 0
    /\ appLast = [op |-> "new", path |-> "none", ok |-> TRUE, version |-> 0,
                  known |-> FALSE, before |-> 0]

\* what the last operation was; before it, version is data_version, known
\* tells whether path was in recent_files, before is the length of recent_files
AppOp(op, path, ok) ==
    [op |-> op, path |-> path, ok |-> ok, version |-> data_version,
     known |-> Contains(recent_files, path), before |-> Len(recent_files)]

\* mutant: the table is taken out of the state before the file is read
load_csv_ReplacesFirst(path, loaded) ==
    IF ~loaded.ok
    THEN /\ appLast' = AppOp("load_csv", path, FALSE)
         /\ state_data' = NoData
         /\ UNCHANGED <<current_file, recent_files, x_index,
                        y_indices, reset_bounds, x_is_timestamp, error_message,
                        outlier_stats_cache, data_version, stats_cache,
                        stats_cache_version>>
    ELSE /\ state_data' = loaded.source
         /\ x_index' = 0
         /\ y_indices' = IF loaded.source.width > 1 THEN <<1>> ELSE <<>>
         /\ recent_files' =
                IF ~Contains(recent_files, path)
                THEN Truncate(<<path>> \o recent_files, RecentFilesCap)
                ELSE <<path>> \o Retain(recent_files, path)
         /\ current_file' = path
         /\ reset_bounds' = TRUE
         /\ x_is_timestamp' = loaded.source.ts
         /\ error_message' = IF loaded.source.nan THEN "warning"
                             ELSE error_message
         /\ outlier_stats_cache' = <<>>
         /\ UNCHANGED <<data_version, stats_cache, stats_cache_version>>
         /\ appLast' = AppOp("load_csv", path, TRUE)

\* PlotOxide::load_csv; loaded is what DataSource::load(&path) returned.  `?`
\* returns the error before anything is assigned.  On success the table
\* replaces state.data, the selection is reset to x = column 0, y = column 1,
\* path moves to the front of recent_files, and outlier_stats_cache is
\* cleared; state.ui (data_version, stats_cache) is not touched.
load_csv(path, loaded) ==
    IF ~loaded.ok
    THEN /\ appLast' = AppOp("load_csv", path, FALSE)
         /\ UNCHANGED <<state_data, current_file, recent_files, x_index,
                        y_indices, reset_bounds, x_is_timestamp, error_message,
                        outlier_stats_cache, data_version, stats_cache,
                        stats_cache_version>>
    ELSE /\ state_data' = loaded.source
         /\ x_index' = 0
         /\ y_indices' = IF loaded.source.width > 1 THEN <<1>> ELSE <<>>
         /\ recent_files' =
                IF ~Contains(recent_files, path)
                THEN Truncate(<<path>> \o recent_files, RecentFilesCap)
                ELSE <<path>> \o Retain(recent_files, path)
         /\ current_file' = path
         /\ reset_bounds' = TRUE
         /\ x_is_timestamp' = loaded.source.ts
         /\ error_message' = IF loaded.source.nan THEN "warning"
                             ELSE error_message
         /\ outlier_stats_cache' = <<>>
         /\ UNCHANGED <<data_version, stats_cache, stats_cache_version>>
         /\ appLast' = AppOp("load_csv", path, TRUE)

LoadCsv ==
    /\ \E path \in dialog_paths : \E loaded \in load(path) :
           load_csv(path, loaded)
    /\ UNCHANGED notApp

\* series panel, a click on series i without modifier keys: single select
SelectSeries ==
    /\ \E i \in 0..(state_data.width - 1) : y_indices' = <<i>>
    /\ appLast' = AppOp("select_series", "none", TRUE)
    /\ UNCHANGED <<state_data, current_file, recent_files, x_index,
                   reset_bounds, x_is_timestamp, error_message,
                   outlier_stats_cache, data_version, stats_cache,
                   stats_cache_version>>
    /\ UNCHANGED notApp

\* plot panel with the outlier filter switched on: the cache is cleared and
\* refilled for the selected Y columns; a column whose filtered values are
\* empty gets no entry
PlotOutlierStats ==
    /\ state_data # NoData
    /\ \E cols \in SUBSET Elems(y_indices) :
           outlier_stats_cache' = [c \in cols |-> StatsOf(state_data)]
    /\ appLast' = AppOp("plot", "none", TRUE)
    /\ UNCHANGED <<state_data, current_file, recent_files, x_index, y_indices,
                   reset_bounds, x_is_timestamp, error_message,
                   data_version, stats_cache, stats_cache_version>>
    /\ UNCHANGED notApp

\* UiState::get_cached_stats: "none" stands for None
get_cached_stats(col_idx) ==
    IF stats_cache_version = data_version /\ col_idx \in DOMAIN stats_cache
    THEN stats_cache[col_idx]
    ELSE [of |-> "none"]

\* UiState::cache_stats applied to the cache c at version v: the pair after
cache_stats(c, v, col_idx, stats) ==
    LET cleared == IF v # data_version THEN <<>> ELSE c
    IN  [cache |-> [k \in (DOMAIN cleared) \cup {col_idx} |->
                       IF k = col_idx THEN stats ELSE cleared[k]],
         version |-> data_version]

\* render_stats_panel: for every selected Y column, the cached statistics
\* are shown, or computed from the loaded table and cached
RECURSIVE StatsPanelLoop(_, _, _)
StatsPanelLoop(ys, c, v) ==
    IF ys = <<>> THEN [cache |-> c, version |-> v]
    ELSE LET hit == v = data_version /\ Head(ys) \in DOMAIN c
             next == IF hit THEN [cache |-> c, version |-> v]
                     ELSE cache_stats(c, v, Head(ys), StatsOf(state_data))
         IN  StatsPanelLoop(Tail(ys), next.cache, next.version)

StatsPanel ==
    /\ state_data # NoData
    /\ LET after == StatsPanelLoop(y_indices, stats_cache, stats_cache_version)
       IN  /\ stats_cache' = after.cache
           /\ stats_cache_version' = after.version
    /\ appLast' = AppOp("stats_panel", "none", TRUE)
    /\ UNCHANGED <<state_data, current_file, recent_files, x_index, y_indices,
                   reset_bounds, x_is_timestamp, error_message,
                   outlier_stats_cache, data_version>>
    /\ UNCHANGED notApp

AppNext ==
    \/ LoadCsv
    \/ SelectSeries
    \/ PlotOutlierStats
    \/ StatsPanel

(***************************************************************************)
(* DataSource: the materialized table and its numeric cache                *)
(* (src/data/source.rs)                                                    *)
(***************************************************************************)
\* the rows the lazy frame yields: column 0 holds numbers, column 1 strings;
\* "" is a null cell
DsRows == << <<"1", "7">>, <<"2", "x">>, <<"", "9">> >>

DsWidth == Len(DsRows[1])

\* s.parse::<f64>() / the cast to Float64 of one cell, None and failure
\* becoming NaN
ParseCell(s) ==
    CASE s = "1" -> Fin(1)
      [] s = "2" -> Fin(2)
      [] s = "7" -> Fin(7)
      [] s = "9" -> Fin(9)
      [] OTHER -> NaN

\* the rows of the frame with index in keep, in the frame's order
RECURSIVE KeepRows(_, _)
KeepRows(i, keep) ==
    IF i > Len(DsRows) THEN <<>>
    ELSE (IF i \in keep THEN <<DsRows[i]>> ELSE <<>>) \o KeepRows(i + 1, keep)

\* the filter expressions: each selects a set of rows, or fails in collect()
DsFilters ==
    {[ok |-> TRUE, keep |-> s] : s \in SUBSET (1..Len(DsRows))}
    \cup {[ok |-> FALSE, keep |-> {}]}

\* DataSource::column_as_f64 on the table m: one f64 per row
column_as_f64(m, col_idx) ==
    IF col_idx >= DsWidth
    THEN [ok |-> FALSE, values |-> <<>>]
    ELSE [ok |-> TRUE,
          values |-> [r \in 1..Len(m) |-> ParseCell(m[r][col_idx + 1])]]

\* DataSource::load / from_dataframe: the frame is collected, the cache empty
DsInit ==
    /\ materialized = KeepRows(1, 1..Len(DsRows))
    /\ numeric_cache = <<>>
    /\ dsLast = [op |-> "load", ok |-> TRUE, col |-> 0, values |-> <<>>]

\* DataSource::apply_filters; `?` returns a collect() error before the
\* assignment
apply_filters(filter) ==
    IF ~filter.ok
    THEN /\ dsLast' = [op |-> "apply_filters", ok |-> FALSE, col |-> 0,
                       values |-> <<>>]
         /\ UNCHANGED <<materialized, numeric_cache>>
    ELSE /\ materialized' = KeepRows(1, filter.keep)
         /\ numeric_cache' = <<>>
         /\ dsLast' = [op |-> "apply_filters", ok |-> TRUE, col |-> 0,
                       values |-> <<>>]

ApplyFilters ==
    /\ \E filter \in DsFilters : apply_filters(filter)
    /\ UNCHANGED notDs

\* mutant: refresh re-materializes and keeps the cache
refresh_KeepsCache(collected) ==
    IF ~collected
    THEN /\ dsLast' = [op |-> "refresh", ok |-> FALSE, col |-> 0,
                       values |-> <<>>]
         /\ UNCHANGED <<materialized, numeric_cache>>
    ELSE /\ materialized' = KeepRows(1, 1..Len(DsRows))
         /\ UNCHANGED numeric_cache
         /\ dsLast' = [op |-> "refresh", ok |-> TRUE, col |-> 0,
                       values |-> <<>>]

\* DataSource::refresh; collected tells whether collect() succeeded
refresh(collected) ==
    IF ~collected
    THEN /\ dsLast' = [op |-> "refresh", ok |-> FALSE, col |-> 0,
                       values |-> <<>>]
         /\ UNCHANGED <<materialized, numeric_cache>>
    ELSE /\ materialized' = KeepRows(1, 1..Len(DsRows))
         /\ numeric_cache' = <<>>
         /\ dsLast' = [op |-> "refresh", ok |-> TRUE, col |-> 0,
                       values |-> <<>>]

Refresh ==
    /\ \E collected \in BOOLEAN : refresh(collected)
    /\ UNCHANGED notDs

\* DataSource::get_cached_column: a column that is not cached is computed
\* from the materialized table and inserted; the cached vector is returned
get_cached_column(col_idx) ==
    IF col_idx \notin DOMAIN numeric_cache
    THEN LET data == column_as_f64(materialized, col_idx)
         IN  IF ~data.ok
             THEN /\ dsLast' = [op |-> "get_cached_column", ok |-> FALSE,
                                col |-> col_idx, values |-> <<>>]
                  /\ UNCHANGED <<materialized, numeric_cache>>
             ELSE /\ numeric_cache' =
                         [c \in (DOMAIN numeric_cache) \cup {col_idx} |->
                             IF c = col_idx THEN data.values
                             ELSE numeric_cache[c]]
                  /\ dsLast' = [op |-> "get_cached_column", ok |-> TRUE,
                                col |-> col_idx, values |-> data.values]
                  /\ UNCHANGED materialized
    ELSE /\ dsLast' = [op |-> "get_cached_column", ok |-> TRUE,
                       col |-> col_idx, values |-> numeric_cache[col_idx]]
         /\ UNCHANGED <<materialized, numeric_cache>>

GetCachedColumn ==
    /\ \E col_idx \in 0..DsWidth : get_cached_column(col_idx)
    /\ UNCHANGED notDs

DsNext ==
    \/ ApplyFilters
    \/ Refresh
    \/ GetCachedColumn

(***************************************************************************)
(* FilterConfig (src/state/filters.rs)                                     *)
(***************************************************************************)
\* DEFAULT_OUTLIER_SIGMA
DEFAULT_OUTLIER_SIGMA == 3

\* the bounds the callers pass to set_x_range and set_y_range
RangeValues == {Fin(0), Fin(1), Fin(2)}

\* FilterConfig::default
default ==
    [filter_empty |-> FALSE,
     filter_y_min |-> None, filter_y_max |-> None,
     filter_x_min |-> None, filter_x_max |-> None,
     filter_outliers |-> FALSE,
     filter_outlier_sigma |-> Fin(DEFAULT_OUTLIER_SIGMA)]

\* FilterConfig::new
FcInit ==
    /\ filters = default
    /\ fcLast = "new"

\* FilterConfig::clear
clear ==
    /\ filters' = default
    /\ fcLast' = "clear"
    /\ UNCHANGED notFc

\* FilterConfig::set_y_range
set_y_range(min, max) ==
    /\ filters' = [filters EXCEPT !.filter_y_min = min, !.filter_y_max = max]
    /\ fcLast' = "set_y_range"

SetYRange ==
    /\ \E min \in RangeValues, max \in RangeValues : set_y_range(min, max)
    /\ UNCHANGED notFc

\* FilterConfig::set_x_range
set_x_range(min, max) ==
    /\ filters' = [filters EXCEPT !.filter_x_min = min, !.filter_x_max = max]
    /\ fcLast' = "set_x_range"

SetXRange ==
    /\ \E min \in RangeValues, max \in RangeValues : set_x_range(min, max)
    /\ UNCHANGED notFc

\* FilterConfig::clear_y_range
clear_y_range ==
    /\ filters' = [filters EXCEPT !.filter_y_min = None, !.filter_y_max = None]
    /\ fcLast' = "clear_y_range"
    /\ UNCHANGED notFc

\* FilterConfig::clear_x_range
clear_x_range ==
    /\ filters' = [filters EXCEPT !.filter_x_min = None, !.filter_x_max = None]
    /\ fcLast' = "clear_x_range"
    /\ UNCHANGED notFc

\* f64::clamp(lo, hi): NaN stays NaN
clamp(a, lo, hi) ==
    IF FLt(a, lo) THEN lo ELSE IF FGt(a, hi) THEN hi ELSE a

\* FilterConfig::validate: a range with min > max is swapped, sigma is
\* clamped to [1, 6]
validate ==
    /\ LET swap_y == /\ filters.filter_y_min # None
                     /\ filters.filter_y_max # None
                     /\ FGt(filters.filter_y_min, filters.filter_y_max)
           swap_x == /\ filters.filter_x_min # None
                     /\ filters.filter_x_max # None
                     /\ FGt(filters.filter_x_min, filters.filter_x_max)
       IN  filters' =
             [filters EXCEPT
                !.filter_y_min = IF swap_y THEN filters.filter_y_max ELSE @,
                !.filter_y_max = IF swap_y THEN filters.filter_y_min ELSE @,
                !.filter_x_min = IF swap_x THEN filters.filter_x_max ELSE @,
                !.filter_x_max = IF swap_x THEN filters.filter_x_min ELSE @,
                !.filter_outlier_sigma = clamp(@, Fin(1), Fin(6))]
    /\ fcLast' = "validate"
    /\ UNCHANGED notFc

FcNext ==
    \/ clear
    \/ SetYRange
    \/ SetXRange
    \/ clear_y_range
    \/ clear_x_range
    \/ validate

(***************************************************************************)
(* PlotOxide::passes_filters (src/app.rs)                                  *)
(***************************************************************************)
\* raw_val.trim()
trim(s) == IF s = " " THEN "" ELSE s

\* ((y_val - mean) / std_dev).abs() > sigma, for finite integer mean,
\* std_dev >= 0 and sigma: a zero std_dev makes the quotient infinite, or NaN
\* when y_val equals the mean; a NaN or infinite y_val makes it NaN or infinite
ZScoreExceeds(y_val, mean, std_dev, sigma) ==
    IF y_val.k = "nan" THEN FALSE
    ELSE IF y_val.k = "inf" THEN TRUE
    ELSE IF std_dev = 0 THEN y_val.v # mean
    ELSE Abs(y_val.v - mean) > sigma * std_dev

\* the FilterConfig values passes_filters is applied to
PfConfigs ==
    [filter_empty : BOOLEAN,
     filter_y_min : {None, Fin(1)}, filter_y_max : {None, Fin(2)},
     filter_x_min : {None, Fin(1)}, filter_x_max : {None, Fin(2)},
     filter_outliers : BOOLEAN,
     filter_outlier_sigma : {Fin(2)}]

\* the rest of the application state it reads: the selected Y columns, the
\* table as strings (raw_data()) and outlier_stats_cache
PfCells == {"", " ", "nan", "5"}

PfSelves ==
    [filters : PfConfigs,
     y_indices : {<<>>, <<1>>},
     raw_data : {<<>>} \cup {<< <<"0", c>> >> : c \in PfCells},
     outlier_stats_cache : {<<>>, (1 :> <<1, 0>>), (1 :> <<1, 1>>)}]

\* the coordinates of the point
PfValues == {NaN, Fin(0), Fin(1), Fin(4)}

\* mutant: the upper Y bound is not checked
passes_filters_SkipsYMax(self, row_idx, x_val, y_val, y_idx) ==
    IF /\ self.filters.filter_empty
       /\ Contains(self.y_indices, y_idx)
       /\ row_idx < Len(self.raw_data)
       /\ y_idx < Len(self.raw_data[row_idx + 1])
       /\ LET raw_val == self.raw_data[row_idx + 1][y_idx + 1]
          IN  trim(raw_val) = "" \/ raw_val = "NaN" \/ raw_val = "nan"
    THEN FALSE
    ELSE IF /\ self.filters.filter_x_min # None
            /\ FLt(x_val, self.filters.filter_x_min)
    THEN FALSE
    ELSE IF /\ self.filters.filter_x_max # None
            /\ FGt(x_val, self.filters.filter_x_max)
    THEN FALSE
    ELSE IF /\ self.filters.filter_y_min # None
            /\ FLt(y_val, self.filters.filter_y_min)
    THEN FALSE
    ELSE IF /\ self.filters.filter_outliers
            /\ y_idx \in DOMAIN self.outlier_stats_cache
            /\ LET stats == self.outlier_stats_cache[y_idx]
               IN  ZScoreExceeds(y_val, stats[1], stats[2],
                                 self.filters.filter_outlier_sigma.v)
    THEN FALSE
    ELSE TRUE

\* PlotOxide::passes_filters: the checks in the order of the code, each
\* returning false at once
passes_filters(self, row_idx, x_val, y_val, y_idx) ==
    IF /\ self.filters.filter_empty
       /\ Contains(self.y_indices, y_idx)
       /\ row_idx < Len(self.raw_data)
       /\ y_idx < Len(self.raw_data[row_idx + 1])
       /\ LET raw_val == self.raw_data[row_idx + 1][y_idx + 1]
          IN  trim(raw_val) = "" \/ raw_val = "NaN" \/ raw_val = "nan"
    THEN FALSE
    ELSE IF /\ self.filters.filter_x_min # None
            /\ FLt(x_val, self.filters.filter_x_min)
    THEN FALSE
    ELSE IF /\ self.filters.filter_x_max # None
            /\ FGt(x_val, self.filters.filter_x_max)
    THEN FALSE
    ELSE IF /\ self.filters.filter_y_min # None
            /\ FLt(y_val, self.filters.filter_y_min)
    THEN FALSE
    ELSE IF /\ self.filters.filter_y_max # None
            /\ FGt(y_val, self.filters.filter_y_max)
    THEN FALSE
    ELSE IF /\ self.filters.filter_outliers
            /\ y_idx \in DOMAIN self.outlier_stats_cache
            /\ LET stats == self.outlier_stats_cache[y_idx]
               IN  ZScoreExceeds(y_val, stats[1], stats[2],
                                 self.filters.filter_outlier_sigma.v)
    THEN FALSE
    ELSE TRUE

PfIdle == pfCall = [fn |-> "idle", self |-> <<>>, x_val |-> NaN, y_val |-> NaN,
                    result |-> FALSE]

\* the arguments of one call: row 0 and Y column 1
PfInit ==
    \E self \in PfSelves, x_val \in PfValues, y_val \in PfValues :
        pfCall = [fn |-> "args", self |-> self, x_val |-> x_val,
                  y_val |-> y_val, result |-> FALSE]

CallPassesFilters ==
    /\ pfCall.fn = "args"
    /\ pfCall' = [pfCall EXCEPT
                    !.fn = "passes_filters",
                    !.result = passes_filters(pfCall.self, 0, pfCall.x_val,
                                              pfCall.y_val, 1)]
    /\ UNCHANGED notPf

PfNext == CallPassesFilters

(***************************************************************************)
(* Statistics functions of PlotOxide (src/app.rs)                          *)
(***************************************************************************)
\* longest input sequence
MaxValues == 4

\* the elements of the inputs; the finite ones are even, so that the halves
\* the functions take are integers
StatValues == {Fin(0), Fin(2), Fin(4), NaN, PosInf}

ValueSeqs == UNION {[1..n -> StatValues] : n \in 0..MaxValues}

BinCounts == 0..3

\* a.partial_cmp(b): "none" stands for None
partial_cmp(a, b) ==
    IF a.k = "nan" \/ b.k = "nan" THEN "none"
    ELSE IF FLt(a, b) THEN "Less"
    ELSE IF FGt(a, b) THEN "Greater"
    ELSE "Equal"

\* sort_by(|a, b| a.partial_cmp(b).unwrap()) panics when it compares a NaN;
\* sorting two or more elements compares every element at least once
SortUnwrapPanics(values) ==
    Len(values) >= 2 /\ \E i \in 1..Len(values) : values[i].k = "nan"

\* insertion of x into the ascending sequence q, after the elements equal to
\* it (the sort is stable)
RECURSIVE InsertSorted(_, _)
InsertSorted(q, x) ==
    IF q = <<>> THEN <<x>>
    ELSE IF partial_cmp(x, Head(q)) = "Less" THEN <<x>> \o q
    ELSE <<Head(q)>> \o InsertSorted(Tail(q), x)

\* values.to_vec() sorted ascending
RECURSIVE SortedAsc(_)
SortedAsc(values) ==
    IF values = <<>> THEN <<>>
    ELSE InsertSorted(SortedAsc(SubSeq(values, 1, Len(values) - 1)),
                      values[Len(values)])

\* the function returned value; the function panicked
StatOk(value) == [status |-> "ok", value |-> value]

StatPanic == [status |-> "panic", value |-> <<>>]

\* PlotOxide::calculate_median (sorted[j] of the code is sorted[j + 1] here)
calculate_median(values) ==
    IF values = <<>> THEN StatOk(Fin(0))
    ELSE IF SortUnwrapPanics(values) THEN StatPanic
    ELSE LET sorted == SortedAsc(values)
             mid == Len(sorted) \div 2
         IN  IF Len(sorted) % 2 = 0
             THEN StatOk(FHalf(FAdd(sorted[mid], sorted[mid + 1])))
             ELSE StatOk(sorted[mid + 1])

\* sorted.iter().find(pred) over the 1-based positions from..to in steps of
\* dir: the first position whose element satisfies v >= lim (dir = 1) or
\* v <= lim (dir = -1); 0 when there is none
RECURSIVE FindWhisker(_, _, _, _)
FindWhisker(sorted, lim, i, dir) ==
    IF i < 1 \/ i > Len(sorted) THEN 0
    ELSE IF (IF dir = 1 THEN FGe(sorted[i], lim) ELSE FLe(sorted[i], lim))
    THEN i
    ELSE FindWhisker(sorted, lim, i + dir, dir)

\* PlotOxide::calculate_boxplot_stats; "none" stands for None
calculate_boxplot_stats(values) ==
    IF values = <<>> THEN StatOk("none")
    ELSE IF SortUnwrapPanics(values) THEN StatPanic
    ELSE LET sorted == SortedAsc(values)
             len == Len(sorted)
             q1 == sorted[(len \div 4) + 1]
             median == IF len % 2 = 0
                       THEN FHalf(FAdd(sorted[len \div 2],
                                       sorted[(len \div 2) + 1]))
                       ELSE sorted[(len \div 2) + 1]
             q3 == sorted[((3 * len) \div 4) + 1]
             iqr == FSub(q3, q1)
             lo == FindWhisker(sorted, FSub(q1, FTimes3Half(iqr)), 1, 1)
             hi == FindWhisker(sorted, FAdd(q3, FTimes3Half(iqr)), len, 0 - 1)
             lower_whisker == IF lo = 0 THEN sorted[1] ELSE sorted[lo]
             upper_whisker == IF hi = 0 THEN sorted[len] ELSE sorted[hi]
         IN  StatOk(<<lower_whisker, q1, median, q3, upper_whisker>>)

\* (v * 100.0).round() as i64 of a finite value, and k as f64 / 100.0
RoundedKey(v) == v.v * 100

KeyValue(k) == Fin(k \div 100)

\* the number of finite elements of values whose rounded key is k
RECURSIVE CountKey(_, _)
CountKey(values, k) ==
    IF values = <<>> THEN 0
    ELSE (IF Head(values).k = "fin" /\ RoundedKey(Head(values)) = k
          THEN 1 ELSE 0) + CountKey(Tail(values), k)

\* freq_vec.sort_by(count descending, then value ascending): the entries of
\* the set s in that order; the values of two entries differ, so the order
\* is total and the comparison of two finite values never fails
RECURSIVE SortFreq(_)
SortFreq(s) ==
    IF s = {} THEN <<>>
    ELSE LET first == CHOOSE e \in s : \A o \in s \ {e} :
                          \/ e[2] > o[2]
                          \/ e[2] = o[2] /\ FLt(e[1], o[1])
         IN  <<first>> \o SortFreq(s \ {first})

\* the running total of the counts, as the percentage cumulative / total
\* * 100 kept as a fraction
RECURSIVE CumulativePct(_, _, _)
CumulativePct(freq_vec, cumulative, total) ==
    IF freq_vec = <<>> THEN <<>>
    ELSE <<[num |-> (cumulative + Head(freq_vec)[2]) * 100, den |-> total]>>
         \o CumulativePct(Tail(freq_vec), cumulative + Head(freq_vec)[2], total)

RECURSIVE SumCounts(_)
SumCounts(q) == IF q = <<>> THEN 0 ELSE Head(q)[2] + SumCounts(Tail(q))

\* PlotOxide::calculate_pareto: only finite values are counted
calculate_pareto(values) ==
    LET keys == {RoundedKey(values[i]) :
                    i \in {j \in 1..Len(values) : values[j].k = "fin"}}
        freq_vec == SortFreq({<<KeyValue(k), CountKey(values, k)>> : k \in keys})
        total == SumCounts(freq_vec)
    IN  StatOk(<<freq_vec, CumulativePct(freq_vec, 0, total)>>)

\* values.iter().cloned().fold(init, f64::min) and fold(init, f64::max)
RECURSIVE FoldMin(_, _)
FoldMin(values, acc) ==
    IF values = <<>> THEN acc ELSE FoldMin(Tail(values), f64_min(acc, Head(values)))

RECURSIVE FoldMax(_, _)
FoldMax(values, acc) ==
    IF values = <<>> THEN acc ELSE FoldMax(Tail(values), f64_max(acc, Head(values)))

\* ((v - min) / bin_width).floor() as usize, then .min(bins - 1), with
\* bin_width = range / bins.  For a finite positive range and a finite v it
\* is floor((v - min) * bins / range); a NaN v, and every v when the range is
\* infinite or NaN, gives a quotient that is 0 or NaN, which the cast turns
\* into 0.
BinIdx(v, min, range, bins) ==
    IF v.k = "fin" /\ min.k = "fin" /\ range.k = "fin"
    THEN Min(((v.v - min.v) * bins) \div range.v, bins - 1)
    ELSE 0

\* the number of elements of values that fall into bin i
RECURSIVE CountBin(_, _, _, _, _)
CountBin(values, min, range, bins, i) ==
    IF values = <<>> THEN 0
    ELSE (IF BinIdx(Head(values), min, range, bins) = i THEN 1 ELSE 0)
         + CountBin(Tail(values), min, range, bins, i)

\* min + i * bin_width, the left edge of bin i: a fraction for a finite
\* range, and not a finite number otherwise
LeftEdge(min, range, bins, i) ==
    IF min.k = "fin" /\ range.k = "fin"
    THEN [num |-> min.v * bins + i * range.v, den |-> bins]
    ELSE [num |-> 0, den |-> 0]

\* PlotOxide::calculate_histogram: hist_data lists [left edge, count] per
\* bin; the third component is bin_width = range / bins, kept as a fraction.
\* Empty input or bins = 0 gives (vec![], 0.0, 0.0), a zero range gives
\* (vec![], min, max).
calculate_histogram(values, bins) ==
    IF values = <<>> \/ bins = 0
    THEN StatOk([hist_data |-> <<>>, min |-> Fin(0), bin_width |-> Fin(0)])
    ELSE LET min == FoldMin(values, PosInf)
             max == FoldMax(values, NegInf)
             range == FSub(max, min)
         IN  IF FEq(range, Fin(0))
             THEN StatOk([hist_data |-> <<>>, min |-> min, bin_width |-> max])
             ELSE StatOk([hist_data |->
                            [b \in 1..bins |->
                               <<LeftEdge(min, range, bins, b - 1),
                                 CountBin(values, min, range, bins, b - 1)>>],
                          min |-> min,
                          bin_width |-> [num |-> range, den |-> bins]])

StatIdle == statCall = [fn |-> "idle", values |-> <<>>, bins |-> 0,
                        result |-> StatOk(<<>>)]

StatInit ==
    \E values \in ValueSeqs, bins \in BinCounts :
        statCall = [fn |-> "args", values |-> values, bins |-> bins,
                    result |-> StatOk(<<>>)]

CallMedian ==
    /\ statCall.fn = "args"
    /\ statCall' = [statCall EXCEPT !.fn = "calculate_median",
                       !.result = calculate_median(statCall.values)]
    /\ UNCHANGED notStat

CallBoxplotStats ==
    /\ statCall.fn = "args"
    /\ statCall' = [statCall EXCEPT !.fn = "calculate_boxplot_stats",
                       !.result = calculate_boxplot_stats(statCall.values)]
    /\ UNCHANGED notStat

CallPareto ==
    /\ statCall.fn = "args"
    /\ statCall' = [statCall EXCEPT !.fn = "calculate_pareto",
                       !.result = calculate_pareto(statCall.values)]
    /\ UNCHANGED notStat

CallHistogram ==
    /\ statCall.fn = "args"
    /\ statCall' = [statCall EXCEPT !.fn = "calculate_histogram",
                       !.result = calculate_histogram(statCall.values,
                                                      statCall.bins)]
    /\ UNCHANGED notStat

StatNext ==
    \/ CallMedian
    \/ CallBoxplotStats
    \/ CallPareto
    \/ CallHistogram

(***************************************************************************)
(* Zoom quantization of two widths (src/perf/cache.rs)                     *)
(***************************************************************************)
\* widest visible range
MaxWidth == 12

ZoomIdle == zoomCall = [fn |-> "idle", w1 |-> 0, w2 |-> 0, b1 |-> 0, b2 |-> 0]

\* the widths of two visible ranges
ZoomInit ==
    \E w1 \in 1..MaxWidth, w2 \in 1..MaxWidth :
        zoomCall = [fn |-> "args", w1 |-> w1, w2 |-> w2, b1 |-> 0, b2 |-> 0]

CallZoomBucket ==
    /\ zoomCall.fn = "args"
    /\ zoomCall' = [zoomCall EXCEPT !.fn = "zoom_bucket",
                       !.b1 = zoom_bucket(zoomCall.w1),
                       !.b2 = zoom_bucket(zoomCall.w2)]
    /\ UNCHANGED notZoom

ZoomNext == CallZoomBucket

(***************************************************************************)
(* lttb_cache::LttbCache (src/lttb_cache.rs)                               *)
(***************************************************************************)
\* LttbCache::new(target_points): the target of every downsample call
LcTargetPoints == 3

\* the raw series handed to get_or_compute: x = -1, 0, ..., 10
LcRawData == [i \in 1..12 |-> <<i - 2, (3 * i) % 5>>]

\* visible ranges (x_min, x_max): widths 5, 5, 10, 0, -5 and 1
LcRanges == {<<0, 5>>, <<5, 10>>, <<0, 10>>, <<3, 3>>, <<5, 0>>, <<0, 1>>}

\* max_entries arguments of enforce_limit
LcLimits == 0..3

\* i32::MIN
I32Min == (0 - 2147483647) - 1

\* lttb_cache::LttbCache::zoom_bucket has no guard: log2 of a negative width is
\* NaN and `NaN as i32` is 0; log2(0.0) is -inf and `-inf as i32` saturates to
\* i32::MIN; for a width w > 0 the value is floor(log2(w^2))
lttb_cache_zoom_bucket(visible_range) ==
    IF visible_range < 0 THEN 0
    ELSE IF visible_range = 0 THEN I32Min
    ELSE Log2Floor(visible_range * visible_range)

\* raw_data.iter().filter(|(x, _)| *x >= start && *x <= end) with
\* start = visible_range.0 - 0.2 * width and end = visible_range.1 + 0.2 * width;
\* both comparisons are multiplied by 5 to stay in the integers
InExtendedRange(x, visible_range) ==
    LET range_width == visible_range[2] - visible_range[1]
    IN  /\ 5 * x >= 5 * visible_range[1] - range_width
        /\ 5 * x <= 5 * visible_range[2] + range_width

RECURSIVE FilterToRange(_, _)
FilterToRange(raw_data, visible_range) ==
    IF raw_data = <<>> THEN <<>>
    ELSE (IF InExtendedRange(Head(raw_data)[1], visible_range)
          THEN <<Head(raw_data)>> ELSE <<>>)
         \o FilterToRange(Tail(raw_data), visible_range)

\* the downsample function of the tests: every step-th point, at most target
dummy_downsample(data, target) ==
    LET idx == StepBy(0, Max(Len(data) \div target, 1), Len(data))
    IN  Truncate(PointsAt(data, idx), target)

\* lcLast describes the last operation: its name and arguments, the number of
\* entries before it, whether it ran the downsample function, what it returned
NoLcOp == [op |-> "new", series_id |-> 0, range |-> <<0, 0>>, limit |-> 0,
           before |-> 0, computed |-> FALSE, returned |-> <<>>]

\* self.cache.len()
LcLen == Cardinality(DOMAIN lttb_cache)

LcInit ==
    /\ lttb_cache = <<>>
    /\ lcLast = NoLcOp

\* entry((series_id, bucket)).or_insert_with(..): a cached entry is returned
\* as it is; otherwise the raw data is filtered to the extended range,
\* downsampled and stored
lttb_cache_get_or_compute(series_id, visible_range, raw_data) ==
    LET range_width == visible_range[2] - visible_range[1]
        bucket == lttb_cache_zoom_bucket(range_width)
        key == <<series_id, bucket>>
        hit == key \in DOMAIN lttb_cache
        points == IF hit THEN lttb_cache[key]
                  ELSE dummy_downsample(FilterToRange(raw_data, visible_range),
                                        LcTargetPoints)
    IN  /\ lttb_cache' = [k \in (DOMAIN lttb_cache) \cup {key} |->
                             IF k = key THEN points ELSE lttb_cache[k]]
        /\ lcLast' = [NoLcOp EXCEPT !.op = "get_or_compute",
                         !.series_id = series_id, !.range = visible_range,
                         !.before = LcLen, !.computed = ~hit,
                         !.returned = points]

LcGetOrCompute ==
    /\ \E series_id \in SeriesIds, visible_range \in LcRanges :
           lttb_cache_get_or_compute(series_id, visible_range, LcRawData)
    /\ UNCHANGED notLc

lttb_cache_invalidate ==
    /\ lttb_cache' = <<>>
    /\ lcLast' = [NoLcOp EXCEPT !.op = "invalidate", !.before = LcLen]
    /\ UNCHANGED notLc

\* mutant: the test keeps the entries of the series and drops the others
lttb_cache_invalidate_series_KeepsOnlySeries(series_id) ==
    /\ lttb_cache' = [k \in {e \in DOMAIN lttb_cache : e[1] = series_id} |->
                         lttb_cache[k]]
    /\ lcLast' = [NoLcOp EXCEPT !.op = "invalidate_series",
                     !.series_id = series_id, !.before = LcLen]

\* self.cache.retain(|(id, _), _| *id != series_id)
lttb_cache_invalidate_series(series_id) ==
    /\ lttb_cache' = [k \in {e \in DOMAIN lttb_cache : e[1] # series_id} |->
                         lttb_cache[k]]
    /\ lcLast' = [NoLcOp EXCEPT !.op = "invalidate_series",
                     !.series_id = series_id, !.before = LcLen]

LcInvalidateSeries ==
    /\ \E series_id \in SeriesIds : lttb_cache_invalidate_series(series_id)
    /\ UNCHANGED notLc

\* if len > limit, any len / 2 of the keys are removed (keys() of a HashMap
\* has no fixed order); limit is the argument max_entries
lttb_cache_enforce_limit(limit) ==
    LET len == LcLen
    IN  /\ \E to_remove \in
               (IF len > limit
                THEN {v \in SUBSET (DOMAIN lttb_cache) : Cardinality(v) = len \div 2}
                ELSE {{}}) :
               lttb_cache' = [k \in (DOMAIN lttb_cache) \ to_remove |->
                                 lttb_cache[k]]
        /\ lcLast' = [NoLcOp EXCEPT !.op = "enforce_limit", !.limit = limit,
                         !.before = len]

LcEnforceLimit ==
    /\ \E limit \in LcLimits : lttb_cache_enforce_limit(limit)
    /\ UNCHANGED notLc

LcNext ==
    \/ LcGetOrCompute
    \/ lttb_cache_invalidate
    \/ LcInvalidateSeries
    \/ LcEnforceLimit

(***************************************************************************)
(* LodTier and LodManager (src/lod.rs)                                     *)
(***************************************************************************)
LodTiers == {"Raw", "High", "Medium", "Low"}

\* zoom ratios in thousandths: Fin(800) stands for 0.8
LodZoomRatios == {Fin(5), Fin(10), Fin(50), Fin(100), Fin(300), Fin(500),
                  Fin(800), NaN}

\* the base paths a manager is created for; "" has no parent directory
LodBasePaths == {"data/raw.parquet", ""}

\* Path::parent: "none" stands for None
Parent(path) == IF path = "data/raw.parquet" THEN "data" ELSE "none"

\* LodTier::for_zoom; a NaN ratio fails every guard
for_zoom(zoom_ratio) ==
    IF FGt(zoom_ratio, Fin(500)) THEN "Low"
    ELSE IF FGt(zoom_ratio, Fin(100)) THEN "Medium"
    ELSE IF FGt(zoom_ratio, Fin(10)) THEN "High"
    ELSE "Raw"

\* LodTier::all_computed
all_computed == <<"Low", "Medium", "High">>

tier_detail_level(tier) ==
    CASE tier = "Low" -> 0
      [] tier = "Medium" -> 1
      [] tier = "High" -> 2
      [] tier = "Raw" -> 3

\* LodManager::new(base_path)
LodManager_new(path) ==
    /\ base_path = path
    /\ current_tier = "Raw"
    /\ available_tiers = <<"Raw">>
    /\ lodLast = [op |-> "new", ok |-> TRUE, zoom_ratio |-> NaN,
                  returned |-> "Raw"]

LodIdle == LodManager_new("data/raw.parquet")

LodInit == \E path \in LodBasePaths : LodManager_new(path)

\* the tiers of all_computed whose file is in exists, in that order
RECURSIVE PushExisting(_, _)
PushExisting(tiers, exists) ==
    IF tiers = <<>> THEN <<>>
    ELSE (IF Head(tiers) \in exists THEN <<Head(tiers)>> ELSE <<>>)
         \o PushExisting(Tail(tiers), exists)

\* LodManager::scan_available_tiers; exists holds the tiers whose file
\* tier_path.exists() finds.  The list is cleared before `?` returns the
\* error of a base path without parent.
scan_available_tiers(exists) ==
    IF Parent(base_path) = "none"
    THEN /\ available_tiers' = <<>>
         /\ lodLast' = [op |-> "scan_available_tiers", ok |-> FALSE,
                        zoom_ratio |-> NaN, returned |-> "Raw"]
         /\ UNCHANGED <<base_path, current_tier>>
    ELSE /\ available_tiers' = <<"Raw">> \o PushExisting(all_computed, exists)
         /\ lodLast' = [op |-> "scan_available_tiers", ok |-> TRUE,
                        zoom_ratio |-> NaN, returned |-> "Raw"]
         /\ UNCHANGED <<base_path, current_tier>>

ScanAvailableTiers ==
    /\ \E exists \in SUBSET (LodTiers \ {"Raw"}) : scan_available_tiers(exists)
    /\ UNCHANGED notLod

\* matches!(tier, ideal) expands to `match tier { ideal => true, _ => false }`.
\* LodTier has no PartialEq and `ideal` is a local variable, so the pattern
\* is an identifier pattern: it binds the value and matches every tier.
MatchesIdeal(tier, ideal) == TRUE

\* the loop of select_tier over the remaining tiers: the tier returned from
\* inside the loop, or the best tier when the loop ends
RECURSIVE SelectLoop(_, _, _)
SelectLoop(tiers, ideal, best) ==
    IF tiers = <<>> THEN best
    ELSE IF MatchesIdeal(Head(tiers), ideal) THEN ideal
    ELSE IF /\ tier_detail_level(Head(tiers)) <= tier_detail_level(ideal)
            /\ tier_detail_level(Head(tiers)) > tier_detail_level(best)
    THEN SelectLoop(Tail(tiers), ideal, Head(tiers))
    ELSE SelectLoop(Tail(tiers), ideal, best)

\* LodManager::select_tier: both exits assign current_tier and return it
select_tier(zoom_ratio) ==
    LET ideal == for_zoom(zoom_ratio)
        chosen == SelectLoop(available_tiers, ideal, "Raw")
    IN  /\ current_tier' = chosen
        /\ lodLast' = [op |-> "select_tier", ok |-> TRUE,
                       zoom_ratio |-> zoom_ratio, returned |-> chosen]
        /\ UNCHANGED <<base_path, available_tiers>>

SelectTier ==
    /\ \E zoom_ratio \in LodZoomRatios : select_tier(zoom_ratio)
    /\ UNCHANGED notLod

LodNext ==
    \/ ScanAvailableTiers
    \/ SelectTier

(***************************************************************************)
(* TableState, the sort and filter settings of UiState and the data table  *)
(* panel (src/state/ui.rs, src/ui/data_table.rs)                           *)
(***************************************************************************)
\* highest data_version on_data_loaded is taken to
MaxDataVersion == 2

\* Option<usize>::None
NoCol == 0 - 1

\* the texts of the row filter field
TblFilters == {"", "7", "x"}

\* the row indices computed from a table, a filter text and a sort setting;
\* "none" stands for the empty Vec
IndicesOf(source, filter, sort_col, sort_asc) ==
    [of |-> source.file_path, filter |-> filter, sort_col |-> sort_col,
     sort_asc |-> sort_asc]

NoIndices == [of |-> "none", filter |-> "", sort_col |-> NoCol,
              sort_asc |-> FALSE]

\* TableState::default()
TableState_default ==
    [filtered_indices |-> NoIndices, display_indices |-> NoIndices,
     filter_cache_key |-> "", sort_cache_key |-> <<NoCol, FALSE>>,
     data_version |-> 0]

\* UiState::new: the sort and filter settings and the table state
TblInit ==
    /\ row_filter = ""
    /\ sort_column = NoCol
    /\ sort_ascending = TRUE
    /\ table = TableState_default
    /\ tblLast = [op |-> "new", event |-> "none", invalidated |-> FALSE]

is_cache_valid(t, filter, sort_col, sort_asc, version) ==
    /\ t.filter_cache_key = filter
    /\ t.sort_cache_key = <<sort_col, sort_asc>>
    /\ t.data_version = version

update_cache_keys(t, filter, sort_col, sort_asc, version) ==
    [t EXCEPT !.filter_cache_key = filter,
              !.sort_cache_key = <<sort_col, sort_asc>>,
              !.data_version = version]

\* TableState::invalidate: the two key fields are left as they are
TableState_invalidate(t) ==
    [t EXCEPT !.data_version = 0,
              !.filtered_indices = NoIndices,
              !.display_indices = NoIndices]

\* recompute_indices: filter, sort, then update_cache_keys
recompute_indices(t, source, filter, sort_col, sort_asc, version) ==
    update_cache_keys(
        [t EXCEPT !.filtered_indices = IndicesOf(source, filter, NoCol, FALSE),
                  !.display_indices = IndicesOf(source, filter, sort_col, sort_asc)],
        filter, sort_col, sort_asc, version)

\* UiState::toggle_sort applied to the setting <<sort_column, sort_ascending>>
toggle_sort(setting, column) ==
    IF setting[1] = column THEN <<column, ~setting[2]>> ELSE <<column, TRUE>>

\* UiState::clear_sort
clear_sort == <<NoCol, TRUE>>

\* the columns shown in the table: x_index and y_indices
display_cols == {x_index} \cup Elems(y_indices)

\* what the user does in one frame of the panel: nothing, an edit of the
\* filter text, a click on "clear filter", on "clear sort" (shown while a sort
\* column is set) or on the header of a displayed column
TblEvents ==
    {[kind |-> "none", text |-> "", col |-> NoCol]}
    \cup {[kind |-> "edit", text |-> f, col |-> NoCol] :
             f \in TblFilters \ {row_filter}}
    \cup {[kind |-> "clear_filter", text |-> "", col |-> NoCol]}
    \cup {[kind |-> "clear_sort", text |-> "", col |-> NoCol] :
             c \in {sort_column} \ {NoCol}}
    \cup {[kind |-> "header", text |-> "", col |-> c] : c \in display_cols}

\* render_data_table_panel: one frame with the event ev, in the order of the
\* code: the filter controls, the validity test, the clear-sort button, the
\* column headers
render_data_table_panel(ev) ==
    LET filter == IF ev.kind \in {"edit", "clear_filter"} THEN ev.text
                  ELSE row_filter
        t1 == IF ev.kind \in {"edit", "clear_filter"}
              THEN recompute_indices(TableState_invalidate(table), state_data,
                                     filter, sort_column, sort_ascending,
                                     data_version)
              ELSE table
        t2 == IF ~is_cache_valid(t1, filter, sort_column, sort_ascending,
                                 data_version)
              THEN recompute_indices(t1, state_data, filter, sort_column,
                                     sort_ascending, data_version)
              ELSE t1
        s3 == IF ev.kind = "clear_sort" THEN clear_sort
              ELSE <<sort_column, sort_ascending>>
        t3 == IF ev.kind = "clear_sort"
              THEN recompute_indices(TableState_invalidate(t2), state_data,
                                     filter, s3[1], s3[2], data_version)
              ELSE t2
        s4 == IF ev.kind = "header" THEN toggle_sort(s3, ev.col) ELSE s3
        t4 == IF ev.kind = "header" THEN TableState_invalidate(t3) ELSE t3
    IN  /\ row_filter' = filter
        /\ sort_column' = s4[1]
        /\ sort_ascending' = s4[2]
        /\ table' = t4
        /\ tblLast' = [op |-> "render_data_table_panel", event |-> ev.kind,
                       invalidated |-> ev.kind = "header"]

\* the panel returns at once while no table is loaded
RenderDataTablePanel ==
    /\ state_data # NoData
    /\ \E ev \in TblEvents : render_data_table_panel(ev)
    /\ UNCHANGED notTbl

\* what on_data_loaded leaves alone
notUiVersion == <<build, lttbVars, adsVars, cacheVars, workerVars, dsVars,
                  fcVars, pfVars, statVars, zoomVars, lcVars, lodVars,
                  fsVars, state_data, current_file, recent_files, x_index,
                  y_indices, reset_bounds, x_is_timestamp, error_message,
                  outlier_stats_cache, appLast,
                  row_filter, sort_column, sort_ascending>>

\* UiState::on_data_loaded.  Nothing in src calls it; it is part of the
\* interface of UiState.
on_data_loaded ==
    /\ data_version < MaxDataVersion
    /\ data_version' = data_version + 1
    /\ stats_cache' = <<>>
    /\ stats_cache_version' = 0
    /\ table' = TableState_invalidate(table)
    /\ tblLast' = [op |-> "on_data_loaded", event |-> "none",
                   invalidated |-> TRUE]
    /\ UNCHANGED notUiVersion

TblNext ==
    \/ LoadCsv
    \/ RenderDataTablePanel
    \/ on_data_loaded

(***************************************************************************)
(* Specifications, one per component                                       *)
(***************************************************************************)
InitLttb ==
    /\ BuildInit
    /\ LttbInit
    /\ AdsInit
    /\ CacheInit
    /\ WorkerInit
    /\ AppInit
    /\ DsInit
    /\ FcInit
    /\ PfIdle
    /\ StatIdle
    /\ ZoomIdle
    /\ LcInit
    /\ LodIdle
    /\ TblInit
    /\ FsInit

SpecLttb == InitLttb /\ [][LttbNext]_vars

InitAds ==
    /\ BuildInit
    /\ LttbIdle
    /\ AdsInit
    /\ CacheInit
    /\ WorkerInit
    /\ AppInit
    /\ DsInit
    /\ FcInit
    /\ PfIdle
    /\ StatIdle
    /\ ZoomIdle
    /\ LcInit
    /\ LodIdle
    /\ TblInit
    /\ FsInit

SpecAds == InitAds /\ [][AdsNext]_vars

InitCache ==
    /\ build = "release"
    /\ LttbIdle
    /\ AdsInit
    /\ CacheInit
    /\ WorkerInit
    /\ AppInit
    /\ DsInit
    /\ FcInit
    /\ PfIdle
    /\ StatIdle
    /\ ZoomIdle
    /\ LcInit
    /\ LodIdle
    /\ TblInit
    /\ FsInit

SpecCache == InitCache /\ [][CacheNext]_vars

InitWorker ==
    /\ BuildInit
    /\ LttbIdle
    /\ AdsInit
    /\ CacheInit
    /\ WorkerInit
    /\ AppInit
    /\ DsInit
    /\ FcInit
    /\ PfIdle
    /\ StatIdle
    /\ ZoomIdle
    /\ LcInit
    /\ LodIdle
    /\ TblInit
    /\ FsInit

SpecWorker == InitWorker /\ [][WorkerNext]_vars

\* the worker is an OS thread: it is scheduled for as long as it can run
SpecWorkerFair ==
    /\ InitWorker
    /\ [][WorkerNext]_vars
    /\ WF_vars(WorkerRecv)
    /\ WF_vars(WorkerProcess)

\* the dropping thread too is scheduled: join returns once the worker thread
\* has ended
SpecWorkerDropFair ==
    /\ SpecWorkerFair
    /\ WF_vars(JoinReturns)

InitApp ==
    /\ build = "release"
    /\ LttbIdle
    /\ AdsInit
    /\ CacheInit
    /\ WorkerInit
    /\ AppInit
    /\ DsInit
    /\ FcInit
    /\ PfIdle
    /\ StatIdle
    /\ ZoomIdle
    /\ LcInit
    /\ LodIdle
    /\ TblInit
    /\ FsInit

SpecApp == InitApp /\ [][AppNext]_vars

InitDs ==
    /\ build = "release"
    /\ LttbIdle
    /\ AdsInit
    /\ CacheInit
    /\ WorkerInit
    /\ AppInit
    /\ DsInit
    /\ FcInit
    /\ PfIdle
    /\ StatIdle
    /\ ZoomIdle
    /\ LcInit
    /\ LodIdle
    /\ TblInit
    /\ FsInit

SpecDs == InitDs /\ [][DsNext]_vars

InitFc ==
    /\ build = "release"
    /\ LttbIdle
    /\ AdsInit
    /\ CacheInit
    /\ WorkerInit
    /\ AppInit
    /\ DsInit
    /\ FcInit
    /\ PfIdle
    /\ StatIdle
    /\ ZoomIdle
    /\ LcInit
    /\ LodIdle
    /\ TblInit
    /\ FsInit

SpecFc == InitFc /\ [][FcNext]_vars

InitPf ==
    /\ build = "release"
    /\ LttbIdle
    /\ AdsInit
    /\ CacheInit
    /\ WorkerInit
    /\ AppInit
    /\ DsInit
    /\ FcInit
    /\ PfInit
    /\ StatIdle
    /\ ZoomIdle
    /\ LcInit
    /\ LodIdle
    /\ TblInit
    /\ FsInit

SpecPf == InitPf /\ [][PfNext]_vars

InitStat ==
    /\ build = "release"
    /\ LttbIdle
    /\ AdsInit
    /\ CacheInit
    /\ WorkerInit
    /\ AppInit
    /\ DsInit
    /\ FcInit
    /\ PfIdle
    /\ StatInit
    /\ ZoomIdle
    /\ LcInit
    /\ LodIdle
    /\ TblInit
    /\ FsInit

SpecStat == InitStat /\ [][StatNext]_vars

InitZoom ==
    /\ build = "release"
    /\ LttbIdle
    /\ AdsInit
    /\ CacheInit
    /\ WorkerInit
    /\ AppInit
    /\ DsInit
    /\ FcInit
    /\ PfIdle
    /\ StatIdle
    /\ ZoomInit
    /\ LcInit
    /\ LodIdle
    /\ TblInit
    /\ FsInit

SpecZoom == InitZoom /\ [][ZoomNext]_vars

InitLc ==
    /\ build = "release"
    /\ LttbIdle
    /\ AdsInit
    /\ CacheInit
    /\ WorkerInit
    /\ AppInit
    /\ DsInit
    /\ FcInit
    /\ PfIdle
    /\ StatIdle
    /\ ZoomIdle
    /\ LcInit
    /\ LodIdle
    /\ TblInit
    /\ FsInit

SpecLc == InitLc /\ [][LcNext]_vars

\* The two LttbCache types are separate values that share no state.  A run of
\* this specification works on one of them: the other is still as constructed.
PerfCacheStep == lcLast.op = "new" /\ CacheNext

LttbCacheStep == cacheLast.op = "new" /\ LcNext

EitherCacheNext ==
    \/ PerfCacheStep
    \/ LttbCacheStep

SpecEitherCache == InitLc /\ [][EitherCacheNext]_vars

InitLod ==
    /\ build = "release"
    /\ LttbIdle
    /\ AdsInit
    /\ CacheInit
    /\ WorkerInit
    /\ AppInit
    /\ DsInit
    /\ FcInit
    /\ PfIdle
    /\ StatIdle
    /\ ZoomIdle
    /\ LcInit
    /\ LodInit
    /\ TblInit
    /\ FsInit

SpecLod == InitLod /\ [][LodNext]_vars

InitTbl ==
    /\ build = "release"
    /\ LttbIdle
    /\ AdsInit
    /\ CacheInit
    /\ WorkerInit
    /\ AppInit
    /\ DsInit
    /\ FcInit
    /\ PfIdle
    /\ StatIdle
    /\ ZoomIdle
    /\ LcInit
    /\ LodIdle
    /\ TblInit
    /\ dialog_paths = TwoFiles

SpecTbl == InitTbl /\ [][TblNext]_vars

\* load_csv alone, in a directory large enough to fill recent_files
InitRecent ==
    /\ build = "release"
    /\ LttbIdle
    /\ AdsInit
    /\ CacheInit
    /\ WorkerInit
    /\ AppInit
    /\ DsInit
    /\ FcInit
    /\ PfIdle
    /\ StatIdle
    /\ ZoomIdle
    /\ LcInit
    /\ LodIdle
    /\ TblInit
    /\ dialog_paths = SixFiles

RecentNext == LoadCsv

SpecRecent == InitRecent /\ [][RecentNext]_vars

(***************************************************************************)
(* Claims about the LTTB functions (checked under SpecLttb)                *)
(***************************************************************************)
LttbFns == {"downsample_lttb", "lttb_downsample", "compute_lttb"}

LttbCalled == lttbCall.fn \in LttbFns

\* C1: for every input of N points and every target T with 3 <= T < N, each
\* of the three LTTB implementations returns normally, and the first output
\* point is input point 0 and the last output point is input point N-1.
C1_LttbKeepsEndpoints ==
    (/\ LttbCalled
     /\ 3 <= lttbCall.target
     /\ lttbCall.target < Len(lttbCall.data))
    => LET r == lttbCall.result
           n == Len(lttbCall.data)
       IN  /\ r.status = "ok"
           /\ Len(r.points) >= 2
           /\ r.idx[1] = 0
           /\ r.points[1] = lttbCall.data[1]
           /\ r.idx[Len(r.idx)] = n - 1
           /\ r.points[Len(r.points)] = lttbCall.data[n]

\* a reduction of 6 points to 4 by the worker's implementation has returned
C1_Witness ==
    /\ lttbCall.fn = "compute_lttb"
    /\ Len(lttbCall.data) = 6
    /\ lttbCall.target = 4
    /\ lttbCall.result.status = "ok"
    /\ Len(lttbCall.result.points) = 4
    /\ lttbCall.data[1] # lttbCall.data[6]

\* C2: every LTTB implementation returns its input unchanged, without
\* panicking, whenever N <= T or T < 3.
C2_DegenerateReturnsInput ==
    (/\ LttbCalled
     /\ \/ Len(lttbCall.data) <= lttbCall.target
        \/ lttbCall.target < 3)
    => /\ lttbCall.result.status = "ok"
       /\ lttbCall.result.points = lttbCall.data

\* the 0-based indices of bucket k (k = 1..T-2) of n points reduced to t:
\* floor((k-1)*s) + 1 up to, not including, floor(k*s) + 1, s = (n-2)/(t-2)
BucketOf(k, n, t) == (FloorMul(k - 1, n, t) + 1)..FloorMul(k, n, t)

\* C24: for N > T >= 3 each LTTB implementation chooses exactly one point per
\* bucket: the output has T points, its k-th interior point (k = 1..T-2) is
\* the input point of an index in bucket k, and no input index appears twice
\* in the output.
C24_OnePointPerBucket ==
    (/\ LttbCalled
     /\ 3 <= lttbCall.target
     /\ lttbCall.target < Len(lttbCall.data))
    => LET r == lttbCall.result
           n == Len(lttbCall.data)
           t == lttbCall.target
       IN  /\ r.status = "ok"
           /\ Len(r.idx) = t
           /\ \A k \in 1..(t - 2) : r.idx[k + 1] \in BucketOf(k, n, t)
           /\ \A i, j \in 1..Len(r.idx) : i # j => r.idx[i] # r.idx[j]

(***************************************************************************)
(* Claims about AdaptiveDownsampler (checked under SpecAds)                *)
(***************************************************************************)
\* C3: any downsample call with currently_dragging = true, from any state and
\* for any data and target, leaves the downsampler Interacting
\* (is_fast_mode() true) with the countdown reset to 10.
C3_DraggingEntersInteracting ==
    (adsLast.op = "downsample" /\ adsLast.dragging)
    => /\ is_fast_mode
       /\ is_interacting
       /\ settle_frames = SettleFrames

\* C4: in every state where the countdown is 0 and the last call was a
\* non-dragging downsample call, is_fast_mode() is false.
C4_SettledWhenCountdownZero ==
    (adsLast.op = "downsample" /\ ~adsLast.dragging /\ settle_frames = 0)
    => ~is_fast_mode

\* C5: force_settle() yields Settled from any state: right after it
\* is_fast_mode() is false and the countdown is 0, and the next downsample
\* call, when not dragging and on data longer than the target, uses full
\* LTTB (it returns what lttb_downsample returns), not the nth-point sample.
C5_ForceSettleSettles ==
    /\ adsLast.op = "force_settle" => (~is_fast_mode /\ settle_frames = 0)
    /\ (/\ adsLast.op = "downsample"
        /\ adsLast.prev = "force_settle"
        /\ ~adsLast.dragging
        /\ Len(adsLast.data) > adsLast.target)
       => /\ adsLast.method = "lttb"
          /\ adsLast.result = lttb_downsample(adsLast.data, adsLast.target, build)

\* after a force_settle, a non-dragging call has reduced 6 points to 3 by
\* LTTB, and the nth-point sample of the same input is a different sequence
C5_Witness ==
    /\ adsLast.op = "downsample"
    /\ adsLast.prev = "force_settle"
    /\ ~adsLast.dragging
    /\ Len(adsLast.data) = 6
    /\ adsLast.target = 3
    /\ adsLast.result.status = "ok"
    /\ adsLast.result # nth_point_sample(adsLast.data, adsLast.target)

\* C23: if, after a dragging call, downsample keeps being called only with
\* currently_dragging = false (for any data and target), the downsampler
\* leaves fast mode within 11 such calls: after 11 or more of them
\* is_fast_mode() is false.
C23_SettlesWithinElevenCalls ==
    (adsLast.op = "downsample" /\ adsLast.calm >= SettleFrames + 1)
    => ~is_fast_mode

\* C28: in every reachable AdaptiveDownsampler state the countdown
\* settle_frames is between 0 and 10 and settle_frames > 0 implies
\* is_interacting, so is_fast_mode() is true exactly when is_interacting is.
C28_CountdownImpliesInteracting ==
    /\ settle_frames \in 0..SettleFrames
    /\ settle_frames > 0 => is_interacting
    /\ is_fast_mode <=> is_interacting

\* the countdown is running: some non-dragging calls after a dragging call
C28_Witness ==
    /\ adsLast.op = "downsample"
    /\ ~adsLast.dragging
    /\ adsLast.calm = 4
    /\ settle_frames = SettleFrames - 4
    /\ is_interacting

C7_CacheNeverExceedsMax == Cardinality(DOMAIN cache) <= max_entries

\* a get_or_compute found the cache full, evicted half and inserted its entry
C7_Witness ==
    /\ cacheLast.op = "get_or_compute"
    /\ cacheLast.evicted
    /\ Cardinality(DOMAIN cache) = max_entries - (max_entries \div 2) + 1

\* position of x in sequence q
Pos(q, x) == CHOOSE i \in 1..Len(q) : q[i] = x

\* C8: when the cache evicts at its size cap, the removed entries are the
\* oldest-inserted half: every removed entry was inserted before every entry
\* that survives the eviction.
C8_EvictsOldestHalf ==
    [][cacheLast'.evicted
       => \A gone \in (DOMAIN cache) \ (DOMAIN cache') :
             \A kept \in (DOMAIN cache) \cap (DOMAIN cache') :
                 Pos(insertOrder, gone) < Pos(insertOrder, kept)]_vars

(***************************************************************************)
(* Claims about the two LttbCache types (checked under SpecEitherCache and *)
(* SpecLc)                                                                 *)
(***************************************************************************)
\* C21: invalidate_series(id) removes every cached entry whose key has series
\* id = id and leaves every entry of every other series, key and stored
\* points, unchanged; this holds for lttb_cache::LttbCache and for
\* perf::LttbCache.
C21_InvalidateSeriesRemovesOnlyThatSeries ==
    [][/\ lcLast'.op = "invalidate_series"
          => /\ DOMAIN lttb_cache' =
                    {k \in DOMAIN lttb_cache : k[1] # lcLast'.series_id}
             /\ \A k \in DOMAIN lttb_cache' : lttb_cache'[k] = lttb_cache[k]
       /\ cacheLast'.op = "invalidate_series"
          => /\ DOMAIN cache' =
                    {k \in DOMAIN cache : k[1] # cacheLast'.key[1]}
             /\ \A k \in DOMAIN cache' : cache'[k] = cache[k]]_vars

\* invalidate_series removed entries of its series and entries of the other
\* series are still cached
C21_Witness ==
    /\ lcLast.op = "invalidate_series"
    /\ lcLast.before > LcLen
    /\ LcLen > 0
    /\ \A k \in DOMAIN lttb_cache : lttb_cache[k] # <<>>

C27_ReturnedWithinExtendedRange ==
    lcLast.op = "get_or_compute"
    => \A i \in 1..Len(lcLast.returned) :
           InExtendedRange(lcLast.returned[i][1], lcLast.range)

(***************************************************************************)
(* Claims about LodManager (checked under SpecLod)                         *)
(***************************************************************************)
\* C25: select_tier(zoom_ratio) always returns, and records as current_tier,
\* a tier that is contained in available_tiers; it returns the ideal tier
\* for_zoom(zoom_ratio) only when that tier is available.
C25_SelectedTierIsAvailable ==
    lodLast.op = "select_tier"
    => /\ current_tier = lodLast.returned
       /\ lodLast.returned \in Elems(available_tiers)

(***************************************************************************)
(* Claims about TableState (checked under SpecTbl)                         *)
(***************************************************************************)
\* C26: immediately after TableState::invalidate(), is_cache_valid(filter,
\* sort_col, sort_asc, data_version) returns false for every filter and sort
\* configuration and for the application's current data_version, data_version
\* = 0 included.
C26_InvalidateForcesRecompute ==
    tblLast.invalidated
    => \A filter \in TblFilters, sort_col \in {NoCol, 0, 1},
          sort_asc \in BOOLEAN :
           ~is_cache_valid(table, filter, sort_col, sort_asc, data_version)

(***************************************************************************)
(* Claims about BackgroundWorker (checked under SpecWorker, and under      *)
(* SpecWorkerFair where the claim is about what eventually happens)        *)
(***************************************************************************)
\* the results produced so far, polled or still in the result channel
Produced == polled \o resChan

ResultCount(id) == Cardinality({k \in 1..Len(Produced) : Produced[k].id = id})

\* C9: for two requests of the same type submitted in the order r1 then r2,
\* poll() delivers the result of r1 before the result of r2: whenever the
\* result of r2 has been polled, the result of r1 was polled before it.
C9_FifoPerRequestType ==
    \A j \in 1..Len(polled) :
        \A r1 \in 1..Len(submitted) :
            (r1 < polled[j].id /\ submitted[r1].req.type = polled[j].req)
            => \E k \in 1..(j - 1) : polled[k].id = r1

\* two results of ComputeLttb requests have been polled, the first of them for
\* the earlier request, while a third result waits in the channel
C9_Witness ==
    /\ Len(polled) = 2
    /\ polled[1].req = "ComputeLttb"
    /\ polled[2].req = "ComputeLttb"
    /\ polled[1].id < polled[2].id
    /\ resChan # <<>>

\* result r answers request q
Answers(r, q) ==
    \/ q.type = "LoadFile" /\ r.type = "FileLoaded" /\ r.path = q.path
    \/ q.type = "LoadFile" /\ r.type = "Error"
    \/ q.type = "ComputeLttb" /\ r.type = "LttbReady" /\ r.series_id = q.series_id

\* C10: every request submitted to a running worker eventually has exactly
\* one result retrievable by poll() (FileLoaded with its path or Error for a
\* LoadFile, LttbReady with its series_id for a ComputeLttb, for any data and
\* target_points), and no result is produced that answers no submitted request.
C10_EveryRequestYieldsOneResult ==
    /\ [](\A k \in 1..Len(Produced) :
             /\ Produced[k].id \in 1..Len(submitted)
             /\ Answers(Produced[k], submitted[Produced[k].id].req)
             /\ ResultCount(Produced[k].id) = 1)
    /\ \A id \in 1..MaxRequests :
          [](/\ Len(submitted) >= id
             /\ submitted[id].queued
             => <>(ResultCount(id) = 1 \/ owner # "alive"))

\* C11: once the BackgroundWorker is being dropped (Shutdown sent), the
\* worker thread starts no further request: a request that was submitted
\* before the drop and is still queued at that moment is never taken up.
C11_ShutdownAbandonsQueued ==
    [][(owner # "alive" /\ wpc = "recv") => wpc' # "work"]_vars

\* C30: dropping a BackgroundWorker always terminates: whatever requests are
\* queued and whether or not results were polled, once drop has begun the
\* worker thread ends and join returns, provided the processing of each
\* request terminates (the thread is not in a compute_lttb that never returns).
C30_DropTerminates ==
    (owner = "joining") ~> (owner = "dropped" \/ wpc = "exhausted")

\* a drop has returned after the worker received Shutdown behind three
\* requests, none of whose results was polled
C30_Witness ==
    /\ owner = "dropped"
    /\ wpc = "exited"
    /\ Len(submitted) = MaxRequests
    /\ \A k \in 1..Len(submitted) : submitted[k].queued
    /\ polled = <<>>

(***************************************************************************)
(* Claims about load_csv and the statistics cache (checked under SpecApp   *)
(* and SpecRecent)                                                         *)
(***************************************************************************)
\* C12: a load_csv that fails (unsupported extension, I/O or parse error)
\* mutates nothing: state.data, current_file, recent_files, x_index,
\* y_indices and outlier_stats_cache are exactly as before the call.
C12_FailedLoadMutatesNothing ==
    [][(appLast'.op = "load_csv" /\ ~appLast'.ok)
       => UNCHANGED <<state_data, current_file, recent_files, x_index,
                      y_indices, outlier_stats_cache>>]_vars

\* a load has failed in the reader while a table with another selection
\* than the default and a filled outlier cache was loaded
C12_Witness ==
    /\ appLast.op = "load_csv"
    /\ ~appLast.ok
    /\ PathExtension(appLast.path) = "csv"
    /\ state_data # NoData
    /\ current_file # appLast.path
    /\ y_indices = <<0>>
    /\ outlier_stats_cache # <<>>
    /\ Len(recent_files) = 2

\* C13: after every successful load_csv the data-version counter has been
\* incremented and get_cached_stats returns None for every column.
C13_LoadInvalidatesStats ==
    (appLast.op = "load_csv" /\ appLast.ok)
    => /\ data_version = appLast.version + 1
       /\ \A col_idx \in 0..2 : get_cached_stats(col_idx) = [of |-> "none"]

\* Vec without two equal elements
NoDuplicates(q) == \A i, j \in 1..Len(q) : i # j => q[i] # q[j]

C14_NumericCacheCoherent ==
    /\ \A c \in DOMAIN numeric_cache :
          /\ column_as_f64(materialized, c).ok
          /\ numeric_cache[c] = column_as_f64(materialized, c).values
          /\ Len(numeric_cache[c]) = Len(materialized)
    /\ (dsLast.op = "get_cached_column" /\ dsLast.ok)
       => dsLast.values = column_as_f64(materialized, dsLast.col).values

\* get_cached_column has returned column 1 of a table that a filter cut down
\* to two of the three rows, one of its cells unparseable
C14_Witness ==
    /\ dsLast.op = "get_cached_column"
    /\ dsLast.ok
    /\ dsLast.col = 1
    /\ Len(materialized) = 2
    /\ dsLast.values = <<NaN, Fin(9)>>
    /\ DOMAIN numeric_cache = {0, 1}

(***************************************************************************)
(* Claims about passes_filters (checked under SpecPf)                      *)
(***************************************************************************)
\* the point of the call fails the empty-value filter: the filter is on, the
\* column is a selected Y column and the cell of the row is blank or "NaN"
FailsEmpty ==
    /\ pfCall.self.filters.filter_empty
    /\ 1 \in Elems(pfCall.self.y_indices)
    /\ pfCall.self.raw_data # <<>>
    /\ pfCall.self.raw_data[1][2] \in {"", " ", "NaN", "nan"}

\* the point lies below a set minimum or above a set maximum of the X range
FailsXRange ==
    \/ /\ pfCall.self.filters.filter_x_min # None
       /\ FLt(pfCall.x_val, pfCall.self.filters.filter_x_min)
    \/ /\ pfCall.self.filters.filter_x_max # None
       /\ FGt(pfCall.x_val, pfCall.self.filters.filter_x_max)

\* the same for the Y range
FailsYRange ==
    \/ /\ pfCall.self.filters.filter_y_min # None
       /\ FLt(pfCall.y_val, pfCall.self.filters.filter_y_min)
    \/ /\ pfCall.self.filters.filter_y_max # None
       /\ FGt(pfCall.y_val, pfCall.self.filters.filter_y_max)

\* the outlier filter is on, statistics of the column are cached and the
\* z-score of y exceeds sigma
FailsOutlier ==
    /\ pfCall.self.filters.filter_outliers
    /\ 1 \in DOMAIN pfCall.self.outlier_stats_cache
    /\ ZScoreExceeds(pfCall.y_val, pfCall.self.outlier_stats_cache[1][1],
                     pfCall.self.outlier_stats_cache[1][2],
                     pfCall.self.filters.filter_outlier_sigma.v)

\* C15: passes_filters returns false for a point that fails any one of the
\* empty-value, X-range, Y-range or outlier filters and true for a point
\* that passes every active one, for every combination of filter settings.
C15_FiltersAndComposed ==
    pfCall.fn = "passes_filters"
    => (pfCall.result <=>
           ~(FailsEmpty \/ FailsXRange \/ FailsYRange \/ FailsOutlier))

\* with every filter active, a point above the Y maximum and inside every
\* other filter has been rejected
C15_Witness ==
    /\ pfCall.fn = "passes_filters"
    /\ pfCall.self.filters.filter_empty
    /\ pfCall.self.filters.filter_outliers
    /\ pfCall.self.filters.filter_x_min # None
    /\ pfCall.self.filters.filter_x_max # None
    /\ pfCall.self.filters.filter_y_min # None
    /\ pfCall.self.filters.filter_y_max # None
    /\ 1 \in DOMAIN pfCall.self.outlier_stats_cache
    /\ ~FailsEmpty /\ ~FailsXRange /\ ~FailsOutlier
    /\ pfCall.self.raw_data # <<>>
    /\ FailsYRange
    /\ ~pfCall.result

(***************************************************************************)
(* Claims about FilterConfig (checked under SpecFc)                        *)
(***************************************************************************)
\* C16: in every state reachable through new, clear, set_x_range,
\* set_y_range, clear_x_range, clear_y_range and validate, a range with both
\* min and max set has min <= max.
C16_RangesOrdered ==
    /\ (filters.filter_x_min # None /\ filters.filter_x_max # None)
       => FLe(filters.filter_x_min, filters.filter_x_max)
    /\ (filters.filter_y_min # None /\ filters.filter_y_max # None)
       => FLe(filters.filter_y_min, filters.filter_y_max)

(***************************************************************************)
(* Claims about the statistics functions (checked under SpecStat)          *)
(***************************************************************************)
\* C17: calculate_median, calculate_boxplot_stats and calculate_pareto
\* return a value, and do not panic, for every input sequence, the empty one
\* and those containing NaN or infinity included.
C17_StatisticsNeverPanic ==
    statCall.fn \in {"calculate_median", "calculate_boxplot_stats",
                     "calculate_pareto"}
    => statCall.result.status = "ok"

\* C18: for every non-empty input and every bins >= 1 the bin counts of
\* calculate_histogram sum to the input length, also when all values are
\* equal.
C18_HistogramCountsSumToLength ==
    (/\ statCall.fn = "calculate_histogram"
     /\ statCall.values # <<>>
     /\ statCall.bins >= 1)
    => /\ statCall.result.status = "ok"
       /\ SumCounts(statCall.result.value.hist_data) = Len(statCall.values)

(***************************************************************************)
(* Claims about the zoom quantization (checked under SpecZoom)             *)
(***************************************************************************)
\* w1 <= w2 and w2 / w1 < 2^0.5, that is w2^2 < 2 * w1^2
ZoomWithinHalfOctave ==
    /\ zoomCall.fn = "zoom_bucket"
    /\ zoomCall.w1 <= zoomCall.w2
    /\ zoomCall.w2 * zoomCall.w2 < 2 * zoomCall.w1 * zoomCall.w1

SortedByX(points) ==
    \A i \in 1..(Len(points) - 1) : points[i][1] <= points[i + 1][1]

\* C20: every downsampler (downsample_lttb, lttb_downsample, compute_lttb
\* and the nth-point sample) that returns lists input points in input order:
\* the input indices of consecutive output points never decrease, and for an
\* input sorted by x the output x values never decrease.
C20_OutputKeepsInputOrder ==
    (/\ lttbCall.fn \in LttbFns \cup {"nth_point_sample"}
     /\ lttbCall.result.status = "ok")
    => LET r == lttbCall.result
       IN  /\ \A i \in 1..Len(r.idx) : r.idx[i] \in 0..(Len(lttbCall.data) - 1)
           /\ \A i \in 1..(Len(r.idx) - 1) : r.idx[i] <= r.idx[i + 1]
           /\ r.points = PointsAt(lttbCall.data, r.idx)
           /\ SortedByX(lttbCall.data) => SortedByX(r.points)

\* the nth-point sample has taken 3 of 6 points, which were sorted by x and
\* not all equal
C20_Witness ==
    /\ lttbCall.fn = "nth_point_sample"
    /\ Len(lttbCall.data) = 6
    /\ lttbCall.target = 3
    /\ lttbCall.result.status = "ok"
    /\ lttbCall.result.idx = <<0, 2, 4>>
    /\ SortedByX(lttbCall.data)
    /\ lttbCall.data[1] # lttbCall.data[5]

====
